---- MODULE Spec2Model ----
(***************************************************************************)
(* vibedom: the egress proxy of an agent sandbox.                          *)
(*                                                                         *)
(*  - DomainPolicy   : whitelist.py  is_domain_allowed / load_whitelist    *)
(*                     and the addon's copy VibedomProxy.is_allowed        *)
(*  - Scrubber       : vm/dlp_scrubber.py  DLPScrubber.scrub and the       *)
(*                     chunked path _scrub_large_text / _scrub_chunk       *)
(*  - Engine         : container/mitmproxy_addon.py VibedomProxy.request,  *)
(*                     log_request, _reload_whitelist (SIGHUP), and the    *)
(*                     vm/mitmproxy_addon.py copy with its response hook   *)
(*                                                                         *)
(* Offsets into texts are Python offsets (0-based, end exclusive); texts   *)
(* are sequences of one-character strings.                                 *)
(***************************************************************************)
EXTENDS Integers, Sequences, FiniteSets, TLC

VARIABLES
    \* ---- DomainPolicy as a pure function (SpecAllow)
    chkDomain,      \* the host given to is_domain_allowed / is_allowed
    chkWhitelist,   \* the allow-set given to it
    chkPhase,       \* "new" | "lib" (is_domain_allowed ran) | "addon" (is_allowed ran)
    chkResult,      \* the returned verdict
    \* ---- Scrubber as a pure function (SpecScrub)
    sText,          \* the text given to scrub()
    sRules,         \* ids of the rules loaded from gitleaks.toml, in file order
    sPath,          \* "new" | "empty" | "normal" | "large": the branch scrub() took
    sResult,        \* the ScrubResult returned
    sAgain,         \* <<>>, or <<r>> with r the ScrubResult of scrub(sResult.text)
    \* ---- the engine process (Spec)
    addon,          \* which addon file runs: "container" | "vm"
    engRules,       \* rule ids its DLPScrubber loaded
    wlFile,         \* the allow-list file as the engine last found it on disk
    whitelist,      \* self.whitelist
    pc,             \* where the request hook of the current flow stands
    reqIn,          \* the request as the agent sent it
    flow,           \* flow.request, as the hook has changed it so far
    domain,         \* local `domain` of request()
    scrubbed_findings, \* local `scrubbed_findings` of request()
    iaIdx,          \* is_allowed: -1 at the exact-match test, else the loop index i
    allowedLog,     \* the verdict passed to log_request
    allowedBlock,   \* the verdict the block test got
    inForceBlock,   \* history: the values of self.whitelist while request() decided
    logFailed,      \* history: the audit write of this request failed with OSError
    raised,         \* the hook of this flow raised
    resp403,        \* flow.response is the synthetic 403
    upstream,       \* what the upstream got and answered: [contacted, host, body]
    delivered,      \* the response content delivered to the agent
    auditLog,       \* the lines of network.jsonl
    auditReq,       \* history: the request each line was written for
    auditSecrets,   \* history: the full matched text behind each summary of each line
    nReq,           \* requests received so far
    \* ---- ProxyManager and the processes it spawned (SpecProxy, Spec)
    _process,       \* self._process: 0 for None, else the pid of the Popen object
    _log_file,      \* self._log_file: 0 for None, else the handle of mitmproxy.log
    port,           \* self.port: 0 for None
    mpc,            \* where the manager's current call stands: "idle" | "startWait" | "stopWait"
    procs,          \* the spawned processes by pid: [alive, up, hup, sigs]
    openFiles,      \* the log file handles that are open
    startResult,    \* history: how the last start() ended: "none" | "ok" | "RuntimeError"
    stops,          \* history: stop() calls since the last start()
    \* ---- the audit file under flows in flight together (SpecLog)
    hook,           \* per flow: "new" | "request" | "await" | "response" | "done"
    at,             \* per flow, inside the running hook: "none" | "entry" | "open" | "buffered"
    buf,            \* per flow: the write buffer of the file object its hook opened
    disk,           \* network.jsonl as the pieces written to it: [flow, kind, part]
    \* ---- DLPScrubber construction (SpecRules)
    rCfg,           \* the gitleaks_config argument and the file behind it
    rPhase,         \* "new" | "built"
    rLoaded,        \* the outcome: [raised, secret_patterns, pii_patterns, warnings]
    \* ---- VMManager.start (SpecVM)
    vmCfg,          \* [base_image, runtime] of the VMManager
    vmEnv,          \* what the host answers: [proxy, cmd, build, hostip, launch, readyAt]
    vmPc,           \* position in start(): "new" ... "running" | "failed" | "exited"
    vmTries,        \* iterations of the readiness loop done
    vmProxy,        \* the mitmdump process of self._proxy: "none" | "running" | "ended"
    vmContainer,    \* the container exists
    vmError,        \* the error start() raised, "none" when none
    \* ---- SessionState (SpecSession)
    sIn,            \* [workspace, runtime] given to Session.start
    sState,         \* the SessionState object in memory, NoState before create
    sDisk,          \* state.json as JSON text, NoFile before the first save
    sCalls,         \* the calls made on the session, with the bundle outcome
    sNow,           \* the clock read by datetime.now()
    \* ---- prune and housekeeping (SpecPrune)
    pSessions,      \* the session directories under ~/.vibedom/logs
    pHost,          \* [commands, answers]: the runtimes installed, the query answering
    pRuns           \* the commands run so far, each with its --runtime option

allowVars == <<chkDomain, chkWhitelist, chkPhase, chkResult>>
scrubVars == <<sText, sRules, sPath, sResult, sAgain>>
engineVars == <<addon, engRules, wlFile, whitelist, pc, reqIn, flow, domain,
                scrubbed_findings, iaIdx, allowedLog, allowedBlock, inForceBlock, logFailed, raised, resp403, upstream, delivered,
                auditLog, auditReq, auditSecrets, nReq>>
proxyVars == <<_process, _log_file, port, mpc, procs, openFiles, startResult, stops>>
logVars == <<hook, at, buf, disk>>
rulesVars == <<rCfg, rPhase, rLoaded>>
vmVars == <<vmCfg, vmEnv, vmPc, vmTries, vmProxy, vmContainer, vmError>>
sessionVars == <<sIn, sState, sDisk, sCalls, sNow>>
pruneVars == <<pSessions, pHost, pRuns>>
moreVars == <<rulesVars, vmVars, sessionVars, pruneVars>>
vars == <<allowVars, scrubVars, engineVars, proxyVars, logVars, moreVars>>

\* ------------------------------------------------------------------ bounds
MaxHostLen == 4      \* longest host string given to is_domain_allowed
MaxMemberLen == 3    \* longest allow-set member
MaxTextLen == 7      \* longest text given to scrub()
MaxRequests == 2     \* requests the engine receives

\* ------------------------------------------------------------------ strings
Min(a, b) == IF a < b THEN a ELSE b
Max(a, b) == IF a > b THEN a ELSE b

\* All sequences over S of length <= n.
StringsUpTo(S, n) == UNION {[1..k -> S] : k \in 0..n}

\* Python's s[a:b] with ints a, b (negative indices count from the end).
PySlice(s, a, b) ==
    LET n  == Len(s)
        a1 == IF a < 0 THEN Max(a + n, 0) ELSE Min(a, n)
        b1 == IF b < 0 THEN Max(b + n, 0) ELSE Min(b, n)
    IN  IF a1 >= b1 THEN <<>> ELSE SubSeq(s, a1 + 1, b1)

\* Python's s[:b] and s[a:].
PyUpTo(s, b) == PySlice(s, 0, b)
PyFrom(s, a) == IF a < 0 THEN PySlice(s, a, Len(s)) ELSE PySlice(s, a, Len(s))

\* s[i] for a Python offset i, "$" outside the text.
At(s, i) == IF i >= 0 /\ i < Len(s) THEN s[i + 1] ELSE "$"

\* sub occurs in s as a contiguous run (Python's `sub in s`).
Contains(s, sub) ==
    \E i \in 0..(Len(s) - Len(sub)) : SubSeq(s, i + 1, i + Len(sub)) = sub

\* ------------------------------------------------------------------ DomainPolicy
HostChars == {"a", "A", "."}
LowerHostChars == {"a", "."}

\* str.lower()
LowerChar(c) == IF c = "A" THEN "a" ELSE c
Lower(s) == [i \in 1..Len(s) |-> LowerChar(s[i])]

\* str.split('.'): the labels between the dots, empty labels included.
RECURSIVE SplitDots(_, _)
SplitDots(s, cur) ==
    IF s = <<>> THEN <<cur>>
    ELSE IF Head(s) = "." THEN <<cur>> \o SplitDots(Tail(s), <<>>)
    ELSE SplitDots(Tail(s), Append(cur, Head(s)))
Split(s) == SplitDots(s, <<>>)

\* '.'.join(parts)
RECURSIVE Join(_)
Join(parts) ==
    IF parts = <<>> THEN <<>>
    ELSE IF Len(parts) = 1 THEN parts[1]
    ELSE parts[1] \o <<".">> \o Join(Tail(parts))

\* '.'.join(parts[i:]) for a Python index i
Parent(parts, i) == Join(SubSeq(parts, i + 1, Len(parts)))

\* A plausible slip: suffix match on characters, without the dot boundary.
EndsWithAllowed(host, allowSet) ==
    LET d == Lower(host)
    IN  \E i \in 0..Len(d) : PyFrom(d, i) \in allowSet

\* whitelist.py:32-58: is_domain_allowed
is_domain_allowed(host, allowSet) ==
    LET d     == Lower(host)
        parts == Split(d)
    IN  \/ d \in allowSet
        \/ \E i \in 0..(Len(parts) - 1) : Parent(parts, i) \in allowSet

\* container/mitmproxy_addon.py: VibedomProxy.is_allowed, run without a
\* reload in between (the engine below runs it check by check).
is_allowed(host, allowSet) ==
    LET d     == Lower(host)
        parts == Split(d)
    IN  \/ d \in allowSet
        \/ \E i \in 0..(Len(parts) - 1) : Parent(parts, i) \in allowSet

Hosts == StringsUpTo(HostChars, MaxHostLen)
Members == StringsUpTo(LowerHostChars, MaxMemberLen) \ {<<>>}
AllowInit ==
    /\ chkDomain \in Hosts
    /\ chkWhitelist \in {{}} \cup {{m} : m \in Members}
                       \cup {{m1, m2} : m1 \in Members, m2 \in Members}
    /\ chkPhase = "new"
    /\ chkResult = FALSE

\* a call of whitelist.is_domain_allowed(chkDomain, chkWhitelist)
CheckLib ==
    /\ chkPhase = "new"
    /\ chkPhase' = "lib"
    /\ chkResult' = is_domain_allowed(chkDomain, chkWhitelist)
    /\ UNCHANGED <<chkDomain, chkWhitelist, scrubVars, engineVars, proxyVars, logVars, moreVars>>

\* a call of VibedomProxy.is_allowed(chkDomain) with self.whitelist = chkWhitelist
CheckAddon ==
    /\ chkPhase = "new"
    /\ chkPhase' = "addon"
    /\ chkResult' = is_allowed(chkDomain, chkWhitelist)
    /\ UNCHANGED <<chkDomain, chkWhitelist, scrubVars, engineVars, proxyVars, logVars, moreVars>>

\* ------------------------------------------------------------------ Scrubber
\* dlp_scrubber.py:15-19. The three sizes are scaled down (512_000, 512_000 and
\* 2000 in the source) keeping MAX_SCRUB_SIZE = CHUNK_SIZE > OVERLAP > 0.
MAX_SCRUB_SIZE == 3
CHUNK_SIZE == 3
OVERLAP == 2

TextChars == {"k", "a", "="}

\* The detectors, by regex shape. Rules of gitleaks.toml (category SECRET):
\*   run  k+          no group, greedy
\*   grp  =(k+)       one capturing group
\*   alt  a(k)|=(k)   two groups in an alternation
\*   val  =(\S+)      keyword and value: the group takes every non-space character
\* Built-in (category PII), always loaded:
\*   lit  ak          no group
PiiIds == <<"lit">>

\* f'[REDACTED_{id}]': the brackets, and between them one element standing for
\* the letters REDACTED_<ID>. They are no "k", "a" or "=", and they are
\* non-space characters.
Placeholder(id) == <<"[", id, "]">>

\* _load_gitleaks_patterns / _load_pii_patterns: Pattern(id, regex, category, placeholder)
Pattern(id, category) ==
    [id |-> id, category |-> category, placeholder |-> Placeholder(id)]
secret_patterns(rules) == [i \in 1..Len(rules) |-> Pattern(rules[i], "SECRET")]
pii_patterns == [i \in 1..Len(PiiIds) |-> Pattern(PiiIds[i], "PII")]

\* The end of the run of "k" that starts at offset i.
RECURSIVE RunEnd(_, _)
RunEnd(s, i) == IF At(s, i) = "k" THEN RunEnd(s, i + 1) ELSE i

\* re: a match of the pattern at offset i exactly, or NoMatch. lastindex is the
\* index of the last group that took part (0 for None); g1s, g1e are
\* match.start(1), match.end(1), which are -1 when group 1 took no part.
NoMatch == [ms |-> -1, me |-> -1, lastindex |-> 0, g1s |-> -1, g1e |-> -1]
MatchAt(id, s, i) ==
    CASE id = "run" ->
           IF At(s, i) = "k"
           THEN [ms |-> i, me |-> RunEnd(s, i), lastindex |-> 0, g1s |-> -1, g1e |-> -1]
           ELSE NoMatch
      [] id = "grp" ->
           IF At(s, i) = "=" /\ At(s, i + 1) = "k"
           THEN [ms |-> i, me |-> RunEnd(s, i + 1), lastindex |-> 1,
                 g1s |-> i + 1, g1e |-> RunEnd(s, i + 1)]
           ELSE NoMatch
      [] id = "alt" ->
           IF At(s, i) = "a" /\ At(s, i + 1) = "k"
           THEN [ms |-> i, me |-> i + 2, lastindex |-> 1, g1s |-> i + 1, g1e |-> i + 2]
           ELSE IF At(s, i) = "=" /\ At(s, i + 1) = "k"
           THEN [ms |-> i, me |-> i + 2, lastindex |-> 2, g1s |-> -1, g1e |-> -1]
           ELSE NoMatch
      [] id = "val" ->
           IF At(s, i) = "=" /\ i + 1 < Len(s)
           THEN [ms |-> i, me |-> Len(s), lastindex |-> 1, g1s |-> i + 1, g1e |-> Len(s)]
           ELSE NoMatch
      [] id = "lit" ->
           IF At(s, i) = "a" /\ At(s, i + 1) = "k"
           THEN [ms |-> i, me |-> i + 2, lastindex |-> 0, g1s |-> -1, g1e |-> -1]
           ELSE NoMatch

\* re: pattern.regex.finditer(s): the non-overlapping matches, left to right.
RECURSIVE FindIterFrom(_, _, _)
FindIterFrom(id, s, pos) ==
    IF pos >= Len(s) THEN <<>>
    ELSE LET m == MatchAt(id, s, pos)
         IN  IF m = NoMatch THEN FindIterFrom(id, s, pos + 1)
             ELSE <<m>> \o FindIterFrom(id, s, m.me)
finditer(id, s) == FindIterFrom(id, s, 0)

\* match.group(1) of a group that took no part
NoneText == <<"None">>

\* dlp_scrubber.py:155-171 and 239-254: the Finding of one match, in a text
\* (or chunk) that starts at absolute offset `offset`.
MakeFinding(pattern, m, s, offset) ==
    LET start == IF m.lastindex # 0 THEN m.g1s ELSE m.ms
        end   == IF m.lastindex # 0 THEN m.g1e ELSE m.me
        matched_text ==
            IF m.lastindex # 0
            THEN (IF m.g1s < 0 THEN NoneText ELSE PySlice(s, m.g1s, m.g1e))
            ELSE PySlice(s, m.ms, m.me)
    IN  [pattern_id |-> pattern.id, category |-> pattern.category,
         matched_text |-> matched_text, start |-> start + offset,
         end |-> end + offset, placeholder |-> pattern.placeholder]

\* The loops at 153-171 / 237-254: every match of every pattern, pattern by pattern.
RECURSIVE AllMatches(_, _, _)
AllMatches(patterns, s, offset) ==
    IF patterns = <<>> THEN <<>>
    ELSE LET p  == Head(patterns)
             ms == finditer(p.id, s)
         IN  [i \in 1..Len(ms) |-> MakeFinding(p, ms[i], s, offset)]
             \o AllMatches(Tail(patterns), s, offset)

\* list.sort(key=start, reverse=True): stable, descending by start.
RECURSIVE InsertDesc(_, _)
InsertDesc(sorted, f) ==
    IF sorted = <<>> THEN <<f>>
    ELSE IF Head(sorted).start >= f.start
         THEN <<Head(sorted)>> \o InsertDesc(Tail(sorted), f)
         ELSE <<f>> \o sorted

RECURSIVE SortDesc(_)
SortDesc(fs) ==
    IF fs = <<>> THEN <<>>
    ELSE InsertDesc(SortDesc(SubSeq(fs, 1, Len(fs) - 1)), fs[Len(fs)])

\* dlp_scrubber.py:180-185 / 262-267: keep a candidate only if it ends at or
\* before the start of the last one kept.
RECURSIVE FilterOverlaps(_, _)
FilterOverlaps(sorted, min_start) ==
    IF sorted = <<>> THEN <<>>
    ELSE LET f == Head(sorted)
         IN  IF f.end <= min_start
             THEN <<f>> \o FilterOverlaps(Tail(sorted), f.start)
             ELSE FilterOverlaps(Tail(sorted), min_start)

\* dlp_scrubber.py:188-192 / 220-226: replace right to left; `base` is the
\* absolute offset of scrubbed[0].
RECURSIVE ReplaceAll(_, _, _)
ReplaceAll(scrubbed, fs, base) ==
    IF fs = <<>> THEN scrubbed
    ELSE LET f == Head(fs)
         IN  ReplaceAll(PyUpTo(scrubbed, f.start - base) \o f.placeholder
                          \o PyFrom(scrubbed, f.end - base),
                        Tail(fs), base)

Reverse(s) == [i \in 1..Len(s) |-> s[Len(s) + 1 - i]]

ScrubResult(text, findings) == [text |-> text, findings |-> findings]

\* dlp_scrubber.py:150-197: the path of scrub() for a text within MAX_SCRUB_SIZE.
ScrubNormalPath(text, patterns) ==
    LET all_matches == AllMatches(patterns, text, 0)
        filtered    == FilterOverlaps(SortDesc(all_matches), Len(text))
    IN  IF all_matches = <<>> THEN ScrubResult(text, <<>>)
        ELSE ScrubResult(ReplaceAll(text, filtered, 0), Reverse(filtered))

\* dlp_scrubber.py:233-276: _scrub_chunk
_scrub_chunk(chunk, offset, patterns) ==
    LET all_matches == AllMatches(patterns, chunk, offset)
        filtered    == FilterOverlaps(SortDesc(all_matches), Len(chunk) + offset)
    IN  IF all_matches = <<>> THEN ScrubResult(chunk, <<>>)
        ELSE ScrubResult(ReplaceAll(chunk, filtered, offset), Reverse(filtered))

\* dlp_scrubber.py:278-287: _deduplicate_findings, first of each
\* (pattern_id, start, end) kept.
RECURSIVE Dedup(_, _)
Dedup(fs, seen) ==
    IF fs = <<>> THEN <<>>
    ELSE LET f   == Head(fs)
             key == <<f.pattern_id, f.start, f.end>>
         IN  IF key \in seen THEN Dedup(Tail(fs), seen)
             ELSE <<f>> \o Dedup(Tail(fs), seen \cup {key})
_deduplicate_findings(fs) == Dedup(fs, {})

\* dlp_scrubber.py:204-208: the findings of every window, window by window.
RECURSIVE WindowFindings(_, _, _)
WindowFindings(text, offset, patterns) ==
    IF offset >= Len(text) THEN <<>>
    ELSE _scrub_chunk(PySlice(text, offset, offset + CHUNK_SIZE + OVERLAP),
                      offset, patterns).findings
         \o WindowFindings(text, offset + CHUNK_SIZE, patterns)

\* dlp_scrubber.py:199-231: _scrub_large_text
_scrub_large_text(text, patterns) ==
    LET unique_findings == _deduplicate_findings(WindowFindings(text, 0, patterns))
        sorted          == SortDesc(unique_findings)
    IN  IF unique_findings = <<>> THEN ScrubResult(text, <<>>)
        ELSE ScrubResult(ReplaceAll(text, sorted, 0), Reverse(sorted))

\* dlp_scrubber.py:137-197: DLPScrubber.scrub
scrub(text, patterns) ==
    IF text = <<>> THEN ScrubResult(text, <<>>)
    ELSE IF Len(text) > MAX_SCRUB_SIZE THEN _scrub_large_text(text, patterns)
    ELSE ScrubNormalPath(text, patterns)

was_scrubbed(result) == Len(result.findings) > 0

\* The rule lists a gitleaks.toml can give: every choice of run, grp, alt in
\* that order, and val alone, after run and before run.
RuleLists ==
    {<<>>, <<"run">>, <<"grp">>, <<"alt">>, <<"run", "grp">>, <<"run", "alt">>,
     <<"grp", "alt">>, <<"run", "grp", "alt">>,
     <<"val">>, <<"run", "val">>, <<"val", "run">>}

\* self.secret_patterns + self.pii_patterns
Patterns(rules) == secret_patterns(rules) \o pii_patterns

ScrubInit ==
    /\ sText \in StringsUpTo(TextChars, MaxTextLen)
    /\ sRules \in RuleLists
    /\ sPath = "new"
    /\ sResult = [text |-> <<>>, findings |-> <<>>]
    /\ sAgain = <<>>

\* scrub(sText) on a text within MAX_SCRUB_SIZE (the empty text included)
ScrubSmall ==
    /\ sPath = "new"
    /\ Len(sText) <= MAX_SCRUB_SIZE
    /\ sResult' = scrub(sText, Patterns(sRules))
    /\ sPath' = IF sText = <<>> THEN "empty" ELSE "normal"
    /\ UNCHANGED <<sText, sRules, sAgain, allowVars, engineVars, proxyVars, logVars, moreVars>>

\* scrub(sText) on a text longer than MAX_SCRUB_SIZE
ScrubLarge ==
    /\ sPath = "new"
    /\ Len(sText) > MAX_SCRUB_SIZE
    /\ sResult' = scrub(sText, Patterns(sRules))
    /\ sPath' = "large"
    /\ UNCHANGED <<sText, sRules, sAgain, allowVars, engineVars, proxyVars, logVars, moreVars>>

\* scrub() called on the text a scrub() returned, by the same scrubber.
ScrubAgain ==
    /\ sPath # "new"
    /\ sAgain = <<>>
    /\ sAgain' = <<scrub(sResult.text, Patterns(sRules))>>
    /\ UNCHANGED <<sText, sRules, sPath, sResult, allowVars, engineVars, proxyVars, logVars, moreVars>>

\* ------------------------------------------------------------------ Engine
\* whitelist.py:10-30 and mitmproxy_addon.py:60-74: the allow-list file.
\* A file is [exists, lines]; a line is a sequence of characters.
Strip(line) ==
    LET idx   == {i \in 1..Len(line) : line[i] # " "}
        first == CHOOSE i \in idx : \A j \in idx : i <= j
        last  == CHOOSE i \in idx : \A j \in idx : i >= j
    IN  IF idx = {} THEN <<>> ELSE SubSeq(line, first, last)

load_whitelist(file) ==
    IF ~file.exists THEN {}
    ELSE {Lower(Strip(file.lines[i])) :
             i \in {j \in 1..Len(file.lines) :
                       /\ Strip(file.lines[j]) # <<>>
                       /\ Head(Strip(file.lines[j])) # "#"}}

MissingFile == [exists |-> FALSE, lines |-> <<>>]
Files ==
    {MissingFile,
     [exists |-> TRUE, lines |-> << <<"#", "a">>, <<"A", " ">> >>],
     [exists |-> TRUE, lines |-> << <<"a", ".", "a">>, <<>> >>]}

\* mitmproxy_addon.py:28-34: SCRUBBABLE_CONTENT_TYPES. A content type is a
\* sequence of segments, so that str.startswith is the prefix test.
SCRUBBABLE_CONTENT_TYPES ==
    {<<"text/">>, <<"application/json">>, <<"application/x-www-form-urlencoded">>,
     <<"application/xml">>, <<"application/javascript">>}

StartsWith(s, prefix) ==
    Len(prefix) <= Len(s) /\ SubSeq(s, 1, Len(prefix)) = prefix

\* A plausible slip: every request that names a content type is scrubbed.
ScrubbableWhenNamed(content_type) == content_type # <<>>

\* mitmproxy_addon.py:96-100
_is_scrubbable(content_type) ==
    IF content_type = <<>> THEN FALSE
    ELSE \E ct \in SCRUBBABLE_CONTENT_TYPES : StartsWith(content_type, ct)

\* mitmproxy_addon.py:115-119: the scrubbed bytes and the findings, or the
\* content as it came.
BodyResult(content, result) ==
    IF was_scrubbed(result)
    THEN [content |-> result.text, findings |-> result.findings]
    ELSE [content |-> content, findings |-> <<>>]

\* mitmproxy_addon.py:102-119: _scrub_body; `utf8` says whether the bytes decode.
_scrub_body(content, content_type, utf8, rules) ==
    IF content = <<>> \/ ~_is_scrubbable(content_type)
    THEN [content |-> content, findings |-> <<>>]
    ELSE IF ~utf8 THEN [content |-> content, findings |-> <<>>]
    ELSE BodyResult(content, scrub(content, Patterns(rules)))

\* urllib.parse.urlencode: quote_plus of one value.
QuoteChar(c) ==
    CASE c = "[" -> "%5B"
      [] c = "]" -> "%5D"
      [] c = "=" -> "%3D"
      [] OTHER -> c
Quote(value) == [i \in 1..Len(value) |-> QuoteChar(value[i])]

\* urllib.parse.parse_qs: the values of the query, blank values dropped.
RECURSIVE parse_qs(_)
parse_qs(query) ==
    IF query = <<>> THEN <<>>
    ELSE IF Head(query) = <<>> THEN parse_qs(Tail(query))
    ELSE <<Head(query)>> \o parse_qs(Tail(query))

\* mitmproxy_addon.py:138-141: one value of the query string scrubbed, in
\* front of the values after it.
ValueResult(value, result, rest) ==
    IF was_scrubbed(result)
    THEN [values |-> <<result.text>> \o rest.values,
          findings |-> result.findings \o rest.findings]
    ELSE [values |-> <<value>> \o rest.values, findings |-> rest.findings]

\* mitmproxy_addon.py:136-141: every value through the scrubber.
RECURSIVE ScrubValues(_, _)
ScrubValues(values, rules) ==
    IF values = <<>> THEN [values |-> <<>>, findings |-> <<>>]
    ELSE ValueResult(Head(values), scrub(Head(values), Patterns(rules)),
                     ScrubValues(Tail(values), rules))

\* mitmproxy_addon.py:143-148: the URL rebuilt by urlencode when a value was
\* scrubbed, else the URL as it came.
UrlResult(url, r) ==
    IF r.findings = <<>> THEN [url |-> url, findings |-> <<>>]
    ELSE [url |-> [i \in 1..Len(r.values) |-> Quote(r.values[i])],
          findings |-> r.findings]

\* mitmproxy_addon.py:121-148: _scrub_url. A URL is the sequence of the values
\* of its query string (scheme, host and path are left out).
_scrub_url(url, rules) ==
    IF url = <<>> THEN [url |-> url, findings |-> <<>>]
    ELSE UrlResult(url, ScrubValues(parse_qs(url), rules))

\* mitmproxy_addon.py:156: the length of the logged prefix.
PrefixLen == 4

\* mitmproxy_addon.py:150-161: _format_findings (on findings whose
\* matched_text is a str; on None it raises TypeError, see LogRequest).
_format_findings(findings) ==
    [i \in 1..Len(findings) |->
        [pattern |-> findings[i].pattern_id,
         category |-> findings[i].category,
         original_prefix |-> PySlice(findings[i].matched_text, 0, PrefixLen) \o <<"***">>,
         original_length |-> Len(findings[i].matched_text),
         replaced_with |-> findings[i].placeholder]]

\* f.matched_text[:4] raises TypeError when matched_text is None.
FormatRaises(findings) ==
    \E i \in 1..Len(findings) : findings[i].matched_text = NoneText

\* The requests the agent sends. host_header = <<>> is a request without a
\* Host header; url is the list of the values of the query string; every
\* request has an Authorization header with a token the rule `run` matches.
Request(host_header, host, url, content, content_type, utf8) ==
    [method |-> IF content = <<>> THEN "GET" ELSE "POST",
     host_header |-> host_header, host |-> host, url |-> url,
     authorization |-> <<"k", "k">>,
     content |-> content, content_type |-> content_type, utf8 |-> utf8]
Requests ==
    {\* a subdomain, a blank value and a secret in the query string
     Request(<<"a", ".", "a">>, <<"a", ".", "a">>, << <<>>, <<"k", "k">> >>, <<>>, <<>>, TRUE),
     \* Host header and connection host differ; a secret in a JSON body
     Request(<<"a">>, <<"a", "a">>, <<>>, <<"k", "k">>, <<"application/json">>, TRUE),
     \* upper case in the Host header; a body that is not text
     Request(<<"A", "a">>, <<"a", "a">>, <<>>, <<"k", "k">>, <<"image/", "png">>, TRUE),
     \* a text body that does not decode as UTF-8
     Request(<<>>, <<"a">>, <<>>, <<"k", "k">>, <<"text/", "plain">>, FALSE),
     \* a body matched by the second alternative of the rule `alt`
     Request(<<>>, <<"a", ".", "a">>, <<>>, <<"=", "k">>, <<"application/json">>, TRUE),
     \* no Host header; a blank and a clean query value, a clean JSON body
     Request(<<>>, <<"a">>, << <<>>, <<"a">> >>, <<"a">>, <<"application/json">>, TRUE),
     \* a secret longer than the logged prefix in a text body
     Request(<<>>, <<"a">>, <<>>, <<"k", "k", "k", "k", "k">>, <<"text/", "plain">>, TRUE)}

\* What an upstream answers: no body, or a JSON body holding a secret.
ResponseSamples == {<<>>, <<"k", "k">>}
Body403 == <<"Domain not whitelisted by vibedom">>

\* The rules of the gitleaks.toml the engine was started with.
EngineRuleLists == {<<"run">>, <<"run", "alt">>}

NoRequest ==
    [method |-> "GET", host_header |-> <<>>, host |-> <<>>, url |-> <<>>,
     authorization |-> <<>>,
     content |-> <<>>, content_type |-> <<>>, utf8 |-> TRUE]
NoUpstream == [contacted |-> FALSE, host |-> <<>>, body |-> <<>>]

\* VibedomProxy.__init__ (mitmproxy_addon.py:40-58), before the first request.
EngineInit ==
    /\ addon \in {"container", "vm"}
    /\ engRules \in EngineRuleLists
    /\ wlFile \in Files
    /\ whitelist = load_whitelist(wlFile)
    /\ pc = "idle"
    /\ reqIn = NoRequest
    /\ flow = NoRequest
    /\ domain = <<>>
    /\ scrubbed_findings = <<>>
    /\ iaIdx = -1
    /\ allowedLog = FALSE
    /\ allowedBlock = FALSE
    /\ inForceBlock = {}
    /\ logFailed = FALSE
    /\ raised = FALSE
    /\ resp403 = FALSE
    /\ upstream = NoUpstream
    /\ delivered = <<>>
    /\ auditLog = <<>>
    /\ auditReq = <<>>
    /\ auditSecrets = <<>>
    /\ nReq = 0

\* The engine constructed and not running (under SpecAllow and SpecScrub).
EngineIdle ==
    /\ addon = "container"
    /\ engRules = <<>>
    /\ wlFile = MissingFile
    /\ whitelist = {}
    /\ pc = "idle"
    /\ reqIn = NoRequest
    /\ flow = NoRequest
    /\ domain = <<>>
    /\ scrubbed_findings = <<>>
    /\ iaIdx = -1
    /\ allowedLog = FALSE
    /\ allowedBlock = FALSE
    /\ inForceBlock = {}
    /\ logFailed = FALSE
    /\ raised = FALSE
    /\ resp403 = FALSE
    /\ upstream = NoUpstream
    /\ delivered = <<>>
    /\ auditLog = <<>>
    /\ auditReq = <<>>
    /\ auditSecrets = <<>>
    /\ nReq = 0

engineConfig == <<addon, engRules>>

\* A plausible slip: the headers go through the scrubber as well.
HeadersScrubbed(r) ==
    [r EXCEPT !.authorization = scrub(r.authorization, Patterns(engRules)).text]

\* What request() assigns nothing to (163-183): the method and the headers.
Untouched(r) == r

\* request(), lines 165-183 (vm addon: 144-156, which has no URL scrubbing):
\* resolve the host, scrub the URL query and the body. Nothing here reads
\* self.whitelist.
Received(r, u, b) ==
    /\ reqIn' = r
    /\ domain' = IF r.host_header # <<>> THEN r.host_header ELSE r.host
    /\ flow' = [Untouched(r) EXCEPT !.url = u.url,
                         !.content = IF b.findings # <<>> THEN b.content
                                     ELSE r.content]
    /\ scrubbed_findings' = u.findings \o b.findings

ReceiveRequest ==
    /\ pc \in {"idle", "done"}
    /\ nReq < MaxRequests
    /\ \E r \in Requests :
         Received(r,
                  IF addon = "container" THEN _scrub_url(r.url, engRules)
                  ELSE [url |-> r.url, findings |-> <<>>],
                  _scrub_body(r.content, r.content_type, r.utf8, engRules))
    /\ nReq' = nReq + 1
    /\ pc' = "allowLog"
    /\ iaIdx' = -1
    /\ allowedLog' = FALSE
    /\ allowedBlock' = FALSE
    /\ inForceBlock' = {}
    /\ logFailed' = FALSE
    /\ raised' = FALSE
    /\ resp403' = FALSE
    /\ upstream' = NoUpstream
    /\ delivered' = <<>>
    /\ UNCHANGED <<engineConfig, wlFile, whitelist, auditLog, auditReq, auditSecrets,
                   allowVars, scrubVars, proxyVars, logVars, moreVars>>

\* is_allowed (81-94), one test against self.whitelist per step: the
\* exact-match test when iaIdx = -1, else the loop's test of '.'.join(parts[i:]).
IaCandidate ==
    LET d == Lower(domain)
    IN  IF iaIdx = -1 THEN d ELSE Parent(Split(d), iaIdx)
IaHit == IaCandidate \in whitelist
IaLast == iaIdx = Len(Split(Lower(domain))) - 1
IaReturns == IaHit \/ IaLast

\* self.is_allowed(domain) in the argument list of log_request (line 186)
AllowedForLog ==
    /\ pc = "allowLog"
    /\ IF IaReturns
       THEN /\ allowedLog' = IaHit
            /\ pc' = "log"
            /\ iaIdx' = -1
       ELSE /\ iaIdx' = iaIdx + 1
            /\ UNCHANGED <<allowedLog, pc>>
    /\ UNCHANGED <<engineConfig, wlFile, whitelist, reqIn, flow, domain,
                   scrubbed_findings, allowedBlock, inForceBlock, logFailed, raised,
                   resp403, upstream, delivered, auditLog, auditReq, auditSecrets,
                   nReq, allowVars, scrubVars, proxyVars, logVars, moreVars>>

\* The line log_request writes (200-208); an entry without the key `scrubbed`
\* is one with no summaries.
LogEntry ==
    [type |-> "request", method |-> flow.method, url |-> flow.url,
     host |-> IF flow.host_header # <<>> THEN flow.host_header ELSE flow.host,
     allowed |-> allowedLog,
     scrubbed |-> _format_findings(scrubbed_findings)]

SecretsOf(findings) == [i \in 1..Len(findings) |-> findings[i].matched_text]

\* What the upstream sees of a request the hook did not answer.
Forwarded == [contacted |-> TRUE, host |-> flow.host, body |-> flow.content]

\* A plausible slip: the OSError of the append leaves request().
WriteFailurePropagates == [raised |-> TRUE, pc |-> "sent"]

\* log_request 210-214: `except OSError` prints a warning, log_request returns
\* and request() goes on to the block test.
AfterWriteFailure == [raised |-> FALSE, pc |-> "allowBlock"]

\* log_request (197-214): build the entry, append it. A TypeError of
\* _format_findings leaves request(); mitmproxy logs the addon error and goes
\* on with the flow, which has no response set. An exception that leaves
\* request() leaves it before the block test: inForceBlock is then the
\* allow-set in force at that moment.
LogRequest ==
    /\ pc = "log"
    /\ IF FormatRaises(scrubbed_findings)
       THEN /\ raised' = TRUE
            /\ pc' = "sent"
            /\ upstream' = Forwarded
            /\ inForceBlock' = {whitelist}
            /\ UNCHANGED <<auditLog, auditReq, auditSecrets, logFailed>>
       ELSE \E ok \in BOOLEAN :
              IF ok
              THEN /\ auditLog' = Append(auditLog, LogEntry)
                   /\ auditReq' = Append(auditReq, nReq)
                   /\ auditSecrets' = Append(auditSecrets, SecretsOf(scrubbed_findings))
                   /\ pc' = "allowBlock"
                   /\ UNCHANGED <<logFailed, raised, upstream, inForceBlock>>
              ELSE /\ logFailed' = TRUE
                   /\ raised' = AfterWriteFailure.raised
                   /\ pc' = AfterWriteFailure.pc
                   /\ upstream' = IF AfterWriteFailure.raised THEN Forwarded ELSE upstream
                   /\ inForceBlock' = IF AfterWriteFailure.raised THEN {whitelist}
                                      ELSE inForceBlock
                   /\ UNCHANGED <<auditLog, auditReq, auditSecrets>>
    /\ UNCHANGED <<engineConfig, wlFile, whitelist, reqIn, flow, domain,
                   scrubbed_findings, iaIdx, allowedLog, allowedBlock, resp403,
                   delivered, nReq, allowVars, scrubVars, proxyVars, logVars, moreVars>>

\* self.is_allowed(domain) of the block test (line 190)
AllowedForBlock ==
    /\ pc = "allowBlock"
    /\ inForceBlock' = inForceBlock \cup {whitelist}
    /\ IF IaReturns
       THEN /\ allowedBlock' = IaHit
            /\ pc' = "block"
            /\ iaIdx' = -1
       ELSE /\ iaIdx' = iaIdx + 1
            /\ UNCHANGED <<allowedBlock, pc>>
    /\ UNCHANGED <<engineConfig, wlFile, whitelist, reqIn, flow, domain,
                   scrubbed_findings, allowedLog, logFailed, raised,
                   resp403, upstream, delivered, auditLog, auditReq, auditSecrets,
                   nReq, allowVars, scrubVars, proxyVars, logVars, moreVars>>

\* The test of line 190 on the verdict.
BlockTest == ~allowedBlock

\* Lines 190-195: set the 403, or leave the flow to go to the upstream.
Block ==
    /\ pc = "block"
    /\ resp403' = BlockTest
    /\ upstream' = IF BlockTest THEN NoUpstream ELSE Forwarded
    /\ pc' = "sent"
    /\ UNCHANGED <<engineConfig, wlFile, whitelist, reqIn, flow, domain,
                   scrubbed_findings, iaIdx, allowedLog, allowedBlock, inForceBlock, logFailed, raised, delivered, auditLog, auditReq,
                   auditSecrets, nReq, allowVars, scrubVars, proxyVars, logVars, moreVars>>

\* The line vm/mitmproxy_addon.py:108-112 writes for a scrubbed response.
ScrubEvent(findings) ==
    [type |-> "response_scrub", method |-> "", url |-> flow.url, host |-> <<>>,
     allowed |-> FALSE, scrubbed |-> _format_findings(findings)]

\* The response of the flow: the 403 made by the hook, or the upstream's
\* answer. The container addon has no response hook. The vm addon's
\* response() (121-140) scrubs the body and logs a line when it found something.
Responded(body, b) ==
    /\ upstream' = [upstream EXCEPT !.body = IF resp403 THEN <<>> ELSE body]
    /\ IF addon = "vm" /\ b.findings # <<>>
       THEN /\ delivered' = b.content
            /\ IF FormatRaises(b.findings)
               THEN UNCHANGED <<auditLog, auditReq, auditSecrets>>
               ELSE \E ok \in BOOLEAN :
                      IF ok
                      THEN /\ auditLog' = Append(auditLog, ScrubEvent(b.findings))
                           /\ auditReq' = Append(auditReq, nReq)
                           /\ auditSecrets' = Append(auditSecrets, SecretsOf(b.findings))
                      ELSE UNCHANGED <<auditLog, auditReq, auditSecrets>>
       ELSE /\ delivered' = body
            /\ UNCHANGED <<auditLog, auditReq, auditSecrets>>

Response ==
    /\ pc = "sent"
    /\ \E body \in (IF resp403 THEN {Body403} ELSE ResponseSamples) :
         Responded(body, _scrub_body(body, <<"application/json">>, TRUE, engRules))
    /\ pc' = "done"
    /\ UNCHANGED <<engineConfig, wlFile, whitelist, reqIn, flow, domain,
                   scrubbed_findings, iaIdx, allowedLog, allowedBlock, inForceBlock, logFailed, raised, resp403, nReq, allowVars, scrubVars, proxyVars, logVars, moreVars>>

\* ------------------------------------------------------------------ ProxyManager
\* proxy.py:33-111. A process is [alive, up, hup, sigs]: it runs, it accepts
\* connections on its port, a SIGHUP is pending for it, and the SIGTERMs and
\* SIGKILLs sent to it so far.
MaxStarts == 2      \* start() calls of one manager
MaxStops == 2       \* stop() calls counted after a start()

Ports == 1..MaxStarts

Spawned == [alive |-> TRUE, up |-> FALSE, hup |-> FALSE, sigs |-> <<>>]
Exited(p) == [p EXCEPT !.alive = FALSE, !.up = FALSE, !.hup = FALSE]

\* Popen.send_signal: poll() first, and no signal to a process that has ended.
Signalled(p, sig) ==
    IF ~p.alive THEN p
    ELSE IF sig = "SIGHUP" THEN [p EXCEPT !.hup = TRUE]
    ELSE IF sig = "SIGKILL" THEN [Exited(p) EXCEPT !.sigs = Append(p.sigs, sig)]
    ELSE [p EXCEPT !.sigs = Append(p.sigs, sig)]

\* ProxyManager.__init__ (36-41)
ProxyNew ==
    /\ _process = 0
    /\ _log_file = 0
    /\ port = 0
    /\ mpc = "idle"
    /\ procs = <<>>
    /\ openFiles = {}
    /\ startResult = "none"
    /\ stops = 0

\* The manager after a start() that returned the port: the state the engine
\* of the container addon serves requests in.
ProxyStarted ==
    /\ _process = 1
    /\ _log_file = 1
    /\ port = 1
    /\ mpc = "idle"
    /\ procs = <<[Spawned EXCEPT !.up = TRUE]>>
    /\ openFiles = {1}
    /\ startResult = "ok"
    /\ stops = 0

\* The pid property (43-45)
pid == _process

\* start() up to the Popen call (47-83), whatever the manager holds: the new
\* port, log file and Popen object replace the fields. Without mitmdump on the
\* PATH it raises before it does anything (49-54).
start ==
    /\ mpc = "idle"
    /\ Len(procs) < MaxStarts
    /\ \E found \in BOOLEAN :
         IF found
         THEN /\ port' \in Ports
              /\ _log_file' = Len(procs) + 1
              /\ openFiles' = openFiles \cup {Len(procs) + 1}
              /\ procs' = Append(procs, Spawned)
              /\ _process' = Len(procs) + 1
              /\ mpc' = "startWait"
              /\ startResult' = "none"
              /\ stops' = 0
         ELSE /\ startResult' = "RuntimeError"
              /\ stops' = 0
              /\ UNCHANGED <<_process, _log_file, port, mpc, procs, openFiles>>
    /\ UNCHANGED <<allowVars, scrubVars, engineVars, logVars, moreVars>>

\* What start() does to its process when _wait_for_proxy returned False (85-86)
OnStartTimeout(p) == Signalled(p, "SIGTERM")

\* What start() has as self._process when it raises (85-90)
ProcessAfterFailedStart == _process

\* What start() has as self._log_file when it raises
LogFileAfterFailedStart == _log_file

\* What start() has as self.port when it raises
PortAfterFailedStart == port

\* _wait_for_proxy (21-30) returns and start() ends (85-92): the port when a
\* connection was accepted, else terminate() and RuntimeError.
start_ready ==
    /\ mpc = "startWait"
    /\ mpc' = "idle"
    /\ IF procs[_process].up
       THEN /\ startResult' = "ok"
            /\ UNCHANGED <<_process, _log_file, port, procs, openFiles>>
       ELSE /\ startResult' = "RuntimeError"
            /\ procs' = [procs EXCEPT ![_process] = OnStartTimeout(procs[_process])]
            /\ _process' = ProcessAfterFailedStart
            /\ _log_file' = LogFileAfterFailedStart
            /\ port' = PortAfterFailedStart
            /\ UNCHANGED openFiles
    /\ UNCHANGED <<stops, allowVars, scrubVars, engineVars, logVars, moreVars>>

\* stop(), lines 96-97: nothing without a process, else terminate() and the
\* wait of up to 5 seconds begins.
stop ==
    /\ mpc = "idle"
    /\ stops' = Min(stops + 1, MaxStops)
    /\ IF _process # 0
       THEN /\ procs' = [procs EXCEPT ![_process] = Signalled(procs[_process], "SIGTERM")]
            /\ mpc' = "stopWait"
       ELSE UNCHANGED <<procs, mpc>>
    /\ UNCHANGED <<_process, _log_file, port, openFiles, startResult,
                   allowVars, scrubVars, engineVars, logVars, moreVars>>

\* A plausible slip: no force-kill after the wait.
NoForceKill(p) == p

\* Lines 98-101: wait() returned, or TimeoutExpired and kill().
AfterWait(p) == Signalled(p, "SIGKILL")

\* A plausible slip: stop() keeps the handle of the process it ended.
KeptProcess == _process

\* Line 102: self._process = None
ClearedProcess == 0

\* stop(), lines 98-106: the wait ends, kill() when the process still runs,
\* then the handle, the log file and the port are dropped.
stop_wait ==
    /\ mpc = "stopWait"
    /\ mpc' = "idle"
    /\ procs' = [procs EXCEPT ![_process] = AfterWait(procs[_process])]
    /\ _process' = ClearedProcess
    /\ openFiles' = openFiles \ {_log_file}
    /\ _log_file' = 0
    /\ port' = 0
    /\ UNCHANGED <<startResult, stops, allowVars, scrubVars, engineVars, logVars, moreVars>>

\* reload() (108-111): SIGHUP to the process, if the manager holds one.
reload ==
    /\ mpc = "idle"
    /\ _process # 0
    /\ procs' = [procs EXCEPT ![_process] = Signalled(procs[_process], "SIGHUP")]
    /\ UNCHANGED <<_process, _log_file, port, mpc, openFiles, startResult, stops,
                   allowVars, scrubVars, engineVars, logVars, moreVars>>

\* mitmdump binds its port and accepts connections.
ProcUp ==
    /\ \E p \in 1..Len(procs) :
         /\ procs[p].alive
         /\ ~procs[p].up
         /\ procs' = [procs EXCEPT ![p].up = TRUE]
    /\ UNCHANGED <<_process, _log_file, port, mpc, openFiles, startResult, stops,
                   allowVars, scrubVars, engineVars, logVars, moreVars>>

\* A process ends: on the SIGTERM it got, or by a failure of its own.
ProcExit ==
    /\ \E p \in 1..Len(procs) :
         /\ procs[p].alive
         /\ procs' = [procs EXCEPT ![p] = Exited(procs[p])]
    /\ UNCHANGED <<_process, _log_file, port, mpc, openFiles, startResult, stops,
                   allowVars, scrubVars, engineVars, logVars, moreVars>>

\* A plausible slip: a handler that reports the reload and keeps the set.
ReloadKeeps(f) == whitelist

\* Line 78: self.whitelist = self.load_whitelist()
Reloaded(f) == load_whitelist(f)

\* The engine is the process the manager holds, and a SIGHUP is pending for it.
HupPending == _process # 0 /\ procs[_process].alive /\ procs[_process].up
                 /\ procs[_process].hup

\* _reload_whitelist (76-79), the SIGHUP handler of the container addon: Python
\* runs it in the main thread between two bytecodes, so between any two steps.
\* It reads the file as the operator has left it by then: unchanged, edited,
\* replaced or removed.
ReloadWhitelist ==
    /\ addon = "container"
    /\ HupPending
    /\ procs' = [procs EXCEPT ![_process].hup = FALSE]
    /\ \E f \in Files :
         /\ wlFile' = f
         /\ whitelist' = Reloaded(f)
    /\ UNCHANGED <<engineConfig, pc, reqIn, flow, domain, scrubbed_findings,
                   iaIdx, allowedLog, allowedBlock, inForceBlock, logFailed,
                   raised, resp403, upstream, delivered, auditLog, auditReq,
                   auditSecrets, nReq, allowVars, scrubVars,
                   _process, _log_file, port, mpc, openFiles, startResult, stops,
                   logVars, moreVars>>

\* ------------------------------------------------------------------ audit file
\* The appends of log_request (mitmproxy_addon.py:210-212) and of
\* _log_scrub_event (vm/mitmproxy_addon.py:114-116) with several flows in
\* flight. A piece on disk is [flow, kind, part]: the JSON text or the newline
\* of the record of kind "request" or "response_scrub" of that flow.
MaxFlows == 2       \* flows in flight together

Flows == 1..MaxFlows

Line(f, kind) == <<[flow |-> f, kind |-> kind, part |-> "json"],
                   [flow |-> f, kind |-> kind, part |-> "nl"]>>

InHook(f) == hook[f] \in {"request", "response"}

\* A plausible slip: each hook in a thread of its own (@concurrent).
ThreadPerHook == TRUE

\* request and response are plain `def` hooks: mitmproxy calls them on its
\* event loop thread, one at a time, each to its return.
LoopFree == \A g \in Flows : ~InHook(g)

LogIdle ==
    /\ hook = [f \in Flows |-> "new"]
    /\ at = [f \in Flows |-> "none"]
    /\ buf = [f \in Flows |-> <<>>]
    /\ disk = <<>>

\* Where the flow goes when its hook returns.
Returned(f) == IF hook[f] = "request" THEN "await" ELSE "done"

\* request(flow) is called and reaches log_request with its entry built.
HookRequest ==
    /\ \E f \in Flows :
         /\ hook[f] = "new"
         /\ LoopFree
         /\ hook' = [hook EXCEPT ![f] = "request"]
         /\ at' = [at EXCEPT ![f] = "entry"]
    /\ UNCHANGED <<buf, disk, allowVars, scrubVars, engineVars, proxyVars, moreVars>>

\* The upstream answered. The container addon has no response hook; the vm
\* addon's response() reaches _log_scrub_event when it found something.
HookResponse ==
    /\ \E f \in Flows :
         /\ hook[f] = "await"
         /\ \E logs \in BOOLEAN :
              IF logs
              THEN /\ LoopFree
                   /\ hook' = [hook EXCEPT ![f] = "response"]
                   /\ at' = [at EXCEPT ![f] = "entry"]
              ELSE /\ hook' = [hook EXCEPT ![f] = "done"]
                   /\ UNCHANGED at
    /\ UNCHANGED <<buf, disk, allowVars, scrubVars, engineVars, proxyVars, moreVars>>

\* open(self.network_log_path, 'a'): the file object, or OSError, which is
\* caught, and the hook returns.
LogOpen ==
    /\ \E f \in Flows :
         /\ at[f] = "entry"
         /\ \E ok \in BOOLEAN :
              IF ok
              THEN /\ at' = [at EXCEPT ![f] = "open"]
                   /\ UNCHANGED hook
              ELSE /\ at' = [at EXCEPT ![f] = "none"]
                   /\ hook' = [hook EXCEPT ![f] = Returned(f)]
    /\ UNCHANGED <<buf, disk, allowVars, scrubVars, engineVars, proxyVars, moreVars>>

\* f.write(json.dumps(entry) + '\n'): one string into the buffer of the file
\* object.
LogWrite ==
    /\ \E f \in Flows :
         /\ at[f] = "open"
         /\ buf' = [buf EXCEPT ![f] = Line(f, IF hook[f] = "request" THEN "request"
                                             ELSE "response_scrub")]
         /\ at' = [at EXCEPT ![f] = "buffered"]
    /\ UNCHANGED <<hook, disk, allowVars, scrubVars, engineVars, proxyVars, moreVars>>

\* The end of the with block: the buffer goes to the end of the file in one
\* write of the append-mode descriptor, or the write fails with OSError; the
\* hook returns.
LogClose ==
    /\ \E f \in Flows :
         /\ at[f] = "buffered"
         /\ \E ok \in BOOLEAN :
              disk' = IF ok THEN disk \o buf[f] ELSE disk
         /\ buf' = [buf EXCEPT ![f] = <<>>]
         /\ at' = [at EXCEPT ![f] = "none"]
         /\ hook' = [hook EXCEPT ![f] = Returned(f)]
    /\ UNCHANGED <<allowVars, scrubVars, engineVars, proxyVars, moreVars>>

\* ------------------------------------------------------------------ rule loading
\* dlp_scrubber.py:57-111. A rule of the file is [id, regex]: the id is a
\* string ("run", "grp"), missing ("none") or of another type ("int"); the
\* regex compiles ("ok"), does not compile ("bad"), is missing ("none") or is
\* of another type ("int").
MaxRules == 2       \* rules in the file

RuleIdKinds == {"run", "none", "int"}
RegexKinds == {"ok", "bad", "none", "int"}
FileRules == [id : RuleIdKinds, regex : RegexKinds]

\* gitleaks_config: None, a path without a file, a file that is no TOML, a
\* file with its rules.
ConfigFiles ==
    {[given |-> FALSE, exists |-> FALSE, parses |-> FALSE, rules |-> <<>>],
     [given |-> TRUE, exists |-> FALSE, parses |-> FALSE, rules |-> <<>>],
     [given |-> TRUE, exists |-> TRUE, parses |-> FALSE, rules |-> <<>>]}
    \cup {[given |-> TRUE, exists |-> TRUE, parses |-> TRUE, rules |-> rs] :
             rs \in StringsUpTo(FileRules, MaxRules)}

\* Line 90: rule.get('id', 'unknown')
rule_id(rule) == IF rule.id = "none" THEN "unknown" ELSE rule.id

\* Lines 89-108 for one rule, on the outcome so far: re.error and KeyError are
\* caught and give a warning; the TypeError of re.compile on a regex that is
\* no string and the AttributeError of rule_id.upper() on an id that is no
\* string leave the constructor.
LoadRule(rule, acc) ==
    IF acc.raised THEN acc
    ELSE IF rule.regex \in {"bad", "none"}
         THEN [acc EXCEPT !.warnings = acc.warnings + 1]
    ELSE IF rule.regex = "int" \/ rule.id = "int"
         THEN [acc EXCEPT !.raised = TRUE]
    ELSE [acc EXCEPT !.secret_patterns = Append(acc.secret_patterns, rule_id(rule))]

RECURSIVE LoadRules(_, _)
LoadRules(rules, acc) ==
    IF rules = <<>> THEN acc
    ELSE LoadRules(Tail(rules), LoadRule(Head(rules), acc))

\* Lines 110-111: the warning when no rule of the file was loaded.
AllFailed(acc) ==
    IF ~acc.raised /\ acc.secret_patterns = <<>>
    THEN [acc EXCEPT !.warnings = acc.warnings + 1]
    ELSE acc

Nothing == [raised |-> FALSE, secret_patterns |-> <<>>, pii_patterns |-> FALSE,
            warnings |-> 0]

\* _load_gitleaks_patterns (71-111)
_load_gitleaks_patterns(cfg) ==
    IF ~cfg.exists \/ ~cfg.parses \/ cfg.rules = <<>>
    THEN [Nothing EXCEPT !.warnings = 1]
    ELSE AllFailed(LoadRules(cfg.rules, Nothing))

\* _load_pii_patterns (line 64), reached when nothing was raised before.
_load_pii_patterns(acc) ==
    IF acc.raised THEN acc ELSE [acc EXCEPT !.pii_patterns = TRUE]

\* DLPScrubber.__init__ (57-69)
DLPScrubber(cfg) ==
    _load_pii_patterns(IF cfg.given THEN _load_gitleaks_patterns(cfg) ELSE Nothing)

RulesInit ==
    /\ rCfg \in ConfigFiles
    /\ rPhase = "new"
    /\ rLoaded = Nothing

RulesIdle ==
    /\ rCfg = [given |-> FALSE, exists |-> FALSE, parses |-> FALSE, rules |-> <<>>]
    /\ rPhase = "new"
    /\ rLoaded = Nothing

\* DLPScrubber(gitleaks_config=...) is constructed.
Construct ==
    /\ rPhase = "new"
    /\ rPhase' = "built"
    /\ rLoaded' = DLPScrubber(rCfg)
    /\ UNCHANGED <<rCfg, allowVars, scrubVars, engineVars, proxyVars, logVars, vmVars, sessionVars, pruneVars>>

\* ------------------------------------------------------------------ VMManager.start
\* vm.py:132-238 with its caller cli.py:135-168. The host's answers are fixed
\* at the start: whether mitmdump comes up, whether the runtime command is
\* there, whether the image build, the network inspection and the container
\* launch succeed, and at which poll the container is ready.
ReadyPolls == 2     \* range(60) of the readiness loop, scaled

VmConfigs == [base_image : BOOLEAN, runtime : {"docker", "apple"}]
VmEnvs == [proxy : BOOLEAN, cmd : BOOLEAN, build : BOOLEAN, hostip : BOOLEAN,
           launch : BOOLEAN, readyAt : 1..(ReadyPolls + 1)]

VmInit ==
    /\ vmCfg \in VmConfigs
    /\ vmEnv \in VmEnvs
    /\ vmPc = "new"
    /\ vmTries = 0
    /\ vmProxy = "none"
    /\ vmContainer = FALSE
    /\ vmError = "none"

VmIdle ==
    /\ vmCfg = [base_image |-> FALSE, runtime |-> "docker"]
    /\ vmEnv = [proxy |-> TRUE, cmd |-> TRUE, build |-> TRUE, hostip |-> TRUE,
                launch |-> TRUE, readyAt |-> 1]
    /\ vmPc = "new"
    /\ vmTries = 0
    /\ vmProxy = "none"
    /\ vmContainer = FALSE
    /\ vmError = "none"

\* ProxyManager.stop() (proxy.py:94-106) on the manager start() made.
ProxyStopped(p) == IF p = "running" THEN "ended" ELSE p

\* start() raises e; the position is the caller's except branch.
VmRaise(e) ==
    /\ vmError' = e
    /\ vmPc' = "failed"

\* Lines 134-147: self.stop() on a manager without proxy, the copy of
\* gitleaks.toml, and self._proxy.start(). A start that times out terminates
\* its process (proxy.py:85-90, with C19 for what remains of it) and raises.
VmStartProxy ==
    /\ vmPc = "new"
    /\ IF vmEnv.proxy
       THEN /\ vmProxy' = "running"
            /\ vmPc' = "image"
            /\ UNCHANGED vmError
       ELSE /\ vmProxy' = "ended"
            /\ VmRaise("ProxyStart")
    /\ UNCHANGED <<vmCfg, vmEnv, vmTries, vmContainer, allowVars, scrubVars,
                   engineVars, proxyVars, logVars, rulesVars, sessionVars, pruneVars>>

\* Line 150 with _image_name / build_project_image (96-117): without
\* base_image no build; else subprocess.run(check=True), whose
\* FileNotFoundError and CalledProcessError nothing catches.
VmImage ==
    /\ vmPc = "image"
    /\ IF ~vmCfg.base_image THEN vmPc' = "hostip" /\ UNCHANGED vmError
       ELSE IF ~vmEnv.cmd THEN VmRaise("BuildCommandMissing")
       ELSE IF ~vmEnv.build THEN VmRaise("BuildFailed")
       ELSE vmPc' = "hostip" /\ UNCHANGED vmError
    /\ UNCHANGED <<vmCfg, vmEnv, vmTries, vmProxy, vmContainer, allowVars,
                   scrubVars, engineVars, proxyVars, logVars, rulesVars, sessionVars, pruneVars>>

\* Line 160 with _apple_host_ip (119-130): asked only for the apple runtime,
\* subprocess.run(check=True) again.
VmHostIp ==
    /\ vmPc = "hostip"
    /\ IF vmCfg.runtime # "apple" THEN vmPc' = "launch" /\ UNCHANGED vmError
       ELSE IF ~vmEnv.cmd THEN VmRaise("InspectCommandMissing")
       ELSE IF ~vmEnv.hostip THEN VmRaise("InspectFailed")
       ELSE vmPc' = "launch" /\ UNCHANGED vmError
    /\ UNCHANGED <<vmCfg, vmEnv, vmTries, vmProxy, vmContainer, allowVars,
                   scrubVars, engineVars, proxyVars, logVars, rulesVars, sessionVars, pruneVars>>

\* Lines 212-223: the container is launched; both except branches stop the
\* proxy and raise RuntimeError.
VmLaunch ==
    /\ vmPc = "launch"
    /\ IF ~vmEnv.cmd
       THEN /\ vmProxy' = ProxyStopped(vmProxy)
            /\ VmRaise("CommandMissing")
            /\ UNCHANGED vmContainer
       ELSE IF ~vmEnv.launch
       THEN /\ vmProxy' = ProxyStopped(vmProxy)
            /\ VmRaise("LaunchFailed")
            /\ UNCHANGED vmContainer
       ELSE /\ vmContainer' = TRUE
            /\ vmPc' = "wait"
            /\ UNCHANGED <<vmProxy, vmError>>
    /\ UNCHANGED <<vmCfg, vmEnv, vmTries, allowVars, scrubVars, engineVars,
                   proxyVars, logVars, rulesVars, sessionVars, pruneVars>>

\* Lines 226-235: one iteration of the readiness loop.
VmPoll ==
    /\ vmPc = "wait"
    /\ vmTries < ReadyPolls
    /\ vmTries' = vmTries + 1
    /\ vmPc' = IF vmEnv.readyAt = vmTries + 1 THEN "running" ELSE "wait"
    /\ UNCHANGED <<vmCfg, vmEnv, vmProxy, vmContainer, vmError, allowVars,
                   scrubVars, engineVars, proxyVars, logVars, rulesVars, sessionVars, pruneVars>>

\* Lines 236-238: the loop is exhausted, RuntimeError.
VmNotReady ==
    /\ vmPc = "wait"
    /\ vmTries = ReadyPolls
    /\ VmRaise("NotReady")
    /\ UNCHANGED <<vmCfg, vmEnv, vmTries, vmProxy, vmContainer, allowVars,
                   scrubVars, engineVars, proxyVars, logVars, rulesVars, sessionVars, pruneVars>>

\* cli.py:164-168, the except branch of run: the event is logged, the session
\* is marked abandoned, the command exits with status 1.
VmRunFailed ==
    /\ vmPc = "failed"
    /\ vmPc' = "exited"
    /\ UNCHANGED <<vmCfg, vmEnv, vmTries, vmProxy, vmContainer, vmError,
                   allowVars, scrubVars, engineVars, proxyVars, logVars, rulesVars, sessionVars, pruneVars>>

\* VMManager.stop (240-262) on a sandbox that runs: the container is removed,
\* the proxy stopped.
VmStop ==
    /\ vmPc = "running"
    /\ vmPc' = "stopped"
    /\ vmContainer' = FALSE
    /\ vmProxy' = ProxyStopped(vmProxy)
    /\ UNCHANGED <<vmCfg, vmEnv, vmTries, vmError, allowVars, scrubVars,
                   engineVars, proxyVars, logVars, rulesVars, sessionVars, pruneVars>>

\* ------------------------------------------------------------------ SessionState
\* session.py:11-73 and Session.start / create_bundle / finalize (90-111,
\* 203-254). Optional fields hold None or a string; state.json holds the JSON
\* text of the fields: null for None, a quoted string else.
MaxCalls == 3       \* calls made on one session

None == "None"
NoState == [status |-> "", started_at |-> None, ended_at |-> None,
            bundle_path |-> None, workspace |-> "", runtime |-> ""]
NoFile == <<>>
StateFields == {"status", "started_at", "ended_at", "bundle_path", "workspace",
                "runtime"}

\* datetime.now().isoformat(timespec='seconds') at clock t
isoformat(t) == <<"T", t>>

\* str(bundle_path) of session_dir / 'repo.bundle'
BundlePath == <<"session", "/", "repo.bundle">>

\* json.dumps(asdict(self)) and json.loads, field by field
json_dumps(state) ==
    [f \in StateFields |->
        IF state[f] = None THEN "null" ELSE <<"\"", state[f], "\"">>]
json_loads(text) ==
    [f \in StateFields |-> IF text[f] = "null" THEN None ELSE text[f][2]]

\* SessionState.save (53-56): state.json is written anew.
save(state) == json_dumps(state)

\* SessionState.load (42-51)
load == json_loads(sDisk)

\* SessionState.create (31-40)
create(workspace, runtime) ==
    [status |-> "running", started_at |-> isoformat(sNow), ended_at |-> None,
     bundle_path |-> None, workspace |-> workspace, runtime |-> runtime]

\* create_bundle (203-241): the path when `git bundle create` and
\* `git bundle verify` both succeeded, None for a missing repo directory, a
\* failed creation, a failed verification and any other exception.
BundleOutcomes == {"ok", "norepo", "createfailed", "verifyfailed", "error"}
create_bundle(outcome) == IF outcome = "ok" THEN BundlePath ELSE None

SessionInputs == [workspace : {"app", "lib"}, runtime : {"docker", "apple"}]

SessionInit ==
    /\ sIn \in SessionInputs
    /\ sState = NoState
    /\ sDisk = NoFile
    /\ sCalls = <<>>
    /\ sNow = 0

SessionIdle ==
    /\ sIn = [workspace |-> "app", runtime |-> "docker"]
    /\ sState = NoState
    /\ sDisk = NoFile
    /\ sCalls = <<>>
    /\ sNow = 0

Called(op, outcome) ==
    /\ sCalls' = Append(sCalls, <<op, outcome>>)
    /\ sNow' = sNow + 1

\* Session.start (90-111): create, then save into the new session directory.
SessionStart ==
    /\ sState = NoState
    /\ sState' = create(sIn.workspace, sIn.runtime)
    /\ sDisk' = save(create(sIn.workspace, sIn.runtime))
    /\ sNow' = sNow + 1
    /\ UNCHANGED <<sIn, sCalls, allowVars, scrubVars, engineVars, proxyVars,
                   logVars, rulesVars, vmVars, pruneVars>>

\* The state after mark_complete (58-63) and after mark_abandoned (65-69).
Completed(bundle_path) ==
    [sState EXCEPT !.status = "complete", !.ended_at = isoformat(sNow),
                   !.bundle_path = bundle_path]
\* A plausible slip: the status alone is changed.
AbandonedStatusOnly == [sState EXCEPT !.status = "abandoned"]
Abandoned ==
    [sState EXCEPT !.status = "abandoned", !.ended_at = isoformat(sNow)]

mark_complete ==
    /\ sState # NoState
    /\ Len(sCalls) < MaxCalls
    /\ sState' = Completed(BundlePath)
    /\ sDisk' = save(Completed(BundlePath))
    /\ Called("mark_complete", "ok")
    /\ UNCHANGED <<sIn, allowVars, scrubVars, engineVars, proxyVars, logVars,
                   rulesVars, vmVars, pruneVars>>

mark_abandoned ==
    /\ sState # NoState
    /\ Len(sCalls) < MaxCalls
    /\ sState' = Abandoned
    /\ sDisk' = save(Abandoned)
    /\ Called("mark_abandoned", "none")
    /\ UNCHANGED <<sIn, allowVars, scrubVars, engineVars, proxyVars, logVars,
                   rulesVars, vmVars, pruneVars>>

\* Session.finalize (242-254)
finalize ==
    /\ sState # NoState
    /\ Len(sCalls) < MaxCalls
    /\ \E outcome \in BundleOutcomes :
         /\ IF create_bundle(outcome) # None
            THEN /\ sState' = Completed(create_bundle(outcome))
                 /\ sDisk' = save(Completed(create_bundle(outcome)))
            ELSE /\ sState' = Abandoned
                 /\ sDisk' = save(Abandoned)
         /\ Called("finalize", outcome)
    /\ UNCHANGED <<sIn, allowVars, scrubVars, engineVars, proxyVars, logVars,
                   rulesVars, vmVars, pruneVars>>

\* ------------------------------------------------------------------ prune, housekeeping
\* cli.py:662-730 with SessionCleanup (session.py:256-400). A session directory
\* is [dir, running, runtime, workspace, old]: it exists, its container runs,
\* the runtime the session was started under, session.log names the workspace,
\* the directory is older than the --days given.
MaxSessions == 2    \* session directories
MaxCommands == 2    \* commands run

SessionIds == 1..MaxSessions
SessionDirs == [dir : {TRUE}, running : BOOLEAN, runtime : {"docker", "apple"},
                workspace : BOOLEAN, old : BOOLEAN]
HostMachines == [commands : SUBSET {"docker", "container"}, answers : BOOLEAN]
RuntimeOptions == {"auto", "docker", "apple"}

PruneInit ==
    /\ pSessions \in [SessionIds -> SessionDirs]
    /\ pHost \in HostMachines
    /\ pRuns = {}

PruneIdle ==
    /\ pSessions = [i \in SessionIds |->
                       [dir |-> TRUE, running |-> FALSE, runtime |-> "docker",
                        workspace |-> TRUE, old |-> FALSE]]
    /\ pHost = [commands |-> {"docker"}, answers |-> TRUE]
    /\ pRuns = {}

\* Line 315: runtime_cmd = runtime if runtime in ('docker', 'apple') else 'docker'
runtime_cmd(runtime) == IF runtime \in {"docker", "apple"} THEN runtime ELSE "docker"

\* What `<cmd> ps --filter name=...` prints for a session: the container's
\* name when cmd is the runtime the container runs under. `docker` lists the
\* containers of docker, `container` those of apple/container.
PsLists(cmd, session) ==
    /\ session.running
    /\ pHost.answers
    /\ cmd = (IF session.runtime = "apple" THEN "container" ELSE "docker")

\* _is_container_running (303-326): a command that is not installed raises
\* FileNotFoundError, and `except Exception` returns False.
_is_container_running(session, runtime) ==
    IF runtime_cmd(runtime) \notin pHost.commands THEN FALSE
    ELSE PsLists(runtime_cmd(runtime), session)

\* find_all_sessions (328-361): is_running of a session; False when
\* _extract_workspace found no workspace.
is_running(session, runtime) ==
    IF session.workspace THEN _is_container_running(session, runtime) ELSE FALSE

\* _filter_not_running (382-392) over the sessions found
_filter_not_running(found, runtime) ==
    {i \in found : ~is_running(pSessions[i], runtime)}

\* _filter_by_age (363-380)
_filter_by_age(found) == {i \in found : pSessions[i].old}

Found == {i \in SessionIds : pSessions[i].dir}

\* The loop of both commands (679-688, 717-726): with --dry-run nothing is
\* deleted, with --force everything, else what the user confirms.
Gone(to_delete) ==
    {IF dry_run THEN {} ELSE IF force THEN to_delete ELSE confirmed :
        dry_run \in BOOLEAN, force \in BOOLEAN, confirmed \in SUBSET to_delete}

Deleted(to_delete) ==
    /\ to_delete # {}
    /\ Cardinality(pRuns) < MaxCommands
    /\ \E gone \in Gone(to_delete) :
         pSessions' = [i \in SessionIds |->
                          IF i \in gone THEN [pSessions[i] EXCEPT !.dir = FALSE]
                          ELSE pSessions[i]]

\* vibedom prune (662-694)
prune ==
    /\ \E runtime \in RuntimeOptions :
         /\ Deleted(_filter_not_running(Found, runtime))
         /\ pRuns' = pRuns \cup {<<"prune", runtime>>}
    /\ UNCHANGED <<pHost, allowVars, scrubVars, engineVars, proxyVars, logVars,
                   rulesVars, vmVars, sessionVars>>

\* vibedom housekeeping (697-730)
housekeeping ==
    /\ \E runtime \in RuntimeOptions :
         /\ Deleted(_filter_not_running(_filter_by_age(Found), runtime))
         /\ pRuns' = pRuns \cup {<<"housekeeping", runtime>>}
    /\ UNCHANGED <<pHost, allowVars, scrubVars, engineVars, proxyVars, logVars,
                   rulesVars, vmVars, sessionVars>>

\* ------------------------------------------------------------------ specifications
AllowIdle ==
    /\ chkDomain = <<>>
    /\ chkWhitelist = {}
    /\ chkPhase = "new"
    /\ chkResult = FALSE

ScrubIdle ==
    /\ sText = <<>>
    /\ sRules = <<>>
    /\ sPath = "new"
    /\ sResult = [text |-> <<>>, findings |-> <<>>]
    /\ sAgain = <<>>

\* The parts a specification does not run, as constructed.
MoreIdle == RulesIdle /\ VmIdle /\ SessionIdle /\ PruneIdle

\* The engine serving requests, with a reload possible at any moment.
Init ==
    /\ EngineInit
    /\ AllowIdle
    /\ ScrubIdle
    /\ IF addon = "container" THEN ProxyStarted ELSE ProxyNew
    /\ LogIdle
    /\ MoreIdle
Next ==
    \/ ReceiveRequest
    \/ AllowedForLog
    \/ LogRequest
    \/ AllowedForBlock
    \/ Block
    \/ Response
    \/ reload
    \/ ReloadWhitelist
Spec == Init /\ [][Next]_vars

\* is_domain_allowed / is_allowed on every host and allow-set within the bounds.
AllowNext == CheckLib \/ CheckAddon
InitAllow == AllowInit /\ ScrubIdle /\ EngineIdle /\ ProxyNew /\ LogIdle /\ MoreIdle
SpecAllow == InitAllow /\ [][AllowNext]_vars

\* scrub() on every text and rule list within the bounds.
ScrubNext == ScrubSmall \/ ScrubLarge \/ ScrubAgain
InitScrub == ScrubInit /\ AllowIdle /\ EngineIdle /\ ProxyNew /\ LogIdle /\ MoreIdle
SpecScrub == InitScrub /\ [][ScrubNext]_vars

\* The manager's calls against the processes it spawns.
ProxyNext ==
    \/ start
    \/ start_ready
    \/ stop
    \/ stop_wait
    \/ reload
    \/ ProcUp
    \/ ProcExit
InitProxy == ProxyNew /\ AllowIdle /\ ScrubIdle /\ EngineIdle /\ LogIdle /\ MoreIdle
SpecProxy == InitProxy /\ [][ProxyNext]_vars

\* The hooks of several flows writing the audit file.
LogNext ==
    \/ HookRequest
    \/ HookResponse
    \/ LogOpen
    \/ LogWrite
    \/ LogClose
InitLog == LogIdle /\ AllowIdle /\ ScrubIdle /\ EngineIdle /\ ProxyNew /\ MoreIdle
SpecLog == InitLog /\ [][LogNext]_vars

\* DLPScrubber constructed on every rule file within the bounds.
RulesNext == Construct
InitRules == RulesInit /\ AllowIdle /\ ScrubIdle /\ EngineIdle /\ ProxyNew /\ LogIdle
                       /\ VmIdle /\ SessionIdle /\ PruneIdle
SpecRules == InitRules /\ [][RulesNext]_vars

\* vibedom run: VMManager.start on every host within the bounds.
VmNext ==
    \/ VmStartProxy
    \/ VmImage
    \/ VmHostIp
    \/ VmLaunch
    \/ VmPoll
    \/ VmNotReady
    \/ VmRunFailed
    \/ VmStop
InitVM == VmInit /\ AllowIdle /\ ScrubIdle /\ EngineIdle /\ ProxyNew /\ LogIdle
                 /\ RulesIdle /\ SessionIdle /\ PruneIdle
SpecVM == InitVM /\ [][VmNext]_vars

\* One session from Session.start on, with its transitions in any order.
SessionNext ==
    \/ SessionStart
    \/ mark_complete
    \/ mark_abandoned
    \/ finalize
InitSession == SessionInit /\ AllowIdle /\ ScrubIdle /\ EngineIdle /\ ProxyNew
                           /\ LogIdle /\ RulesIdle /\ VmIdle /\ PruneIdle
SpecSession == InitSession /\ [][SessionNext]_vars

\* prune and housekeeping run on every set of sessions within the bounds.
PruneNext ==
    \/ prune
    \/ housekeeping
InitPrune == PruneInit /\ AllowIdle /\ ScrubIdle /\ EngineIdle /\ ProxyNew
                       /\ LogIdle /\ RulesIdle /\ VmIdle /\ SessionIdle
SpecPrune == InitPrune /\ [][PruneNext]_vars

\* ------------------------------------------------------------------ claims
\* request() is done with the current flow.
HookDone == pc \in {"sent", "done"}

\* No reload changed self.whitelist while request() decided, and it returned.
DecidedQuietly == ~raised /\ Cardinality(inForceBlock) = 1

\* C1: once request() is done with a flow, the synthetic 403 is set exactly
\* when the resolved host is denied by the allow-set in force, a flow with the
\* 403 never reaches the upstream and a flow without it does. When a reload
\* fell into the decision, any of the allow-sets in force may give the verdict.
C1_Forbidden403IffDenied ==
    HookDone =>
        /\ resp403 => \E W \in inForceBlock : ~is_allowed(domain, W)
        /\ ~resp403 => \E W \in inForceBlock : is_allowed(domain, W)
        /\ resp403 = ~upstream.contacted

\* C1 for the requests request() returned from, whatever reloads fell into
\* the decision.
C1_DecisionWhenReturned ==
    (HookDone /\ ~raised) =>
        /\ resp403 => \E W \in inForceBlock : ~is_allowed(domain, W)
        /\ ~resp403 => \E W \in inForceBlock : is_allowed(domain, W)

\* C1 without a reload during the decision and without an exception.
C1_QuietDecision ==
    (HookDone /\ DecidedQuietly) =>
        /\ \A W \in inForceBlock : resp403 = ~is_allowed(domain, W)
        /\ resp403 = ~upstream.contacted

\* C2: a flow that request() decided and let through goes to a connection-level
\* host the allow-set in force permits, and a flow whose connection-level host
\* no allow-set in force permits has the 403 and does not reach the upstream.
C2_ForwardedOnlyToPermittedHost ==
    (HookDone /\ DecidedQuietly) =>
        /\ upstream.contacted =>
               \E W \in inForceBlock : is_allowed(upstream.host, W)
        /\ (\A W \in inForceBlock : ~is_allowed(flow.host, W)) =>
               resp403 /\ ~upstream.contacted

\* C3: is_domain_allowed(h, W) and VibedomProxy.is_allowed return true exactly
\* when lower(h) is a member of W, or lower(h) is some prefix, a dot, and a
\* member of W; the verdict is the same for h and lower(h).
C3_AllowedIffMemberOrDotSuffix ==
    chkPhase # "new" =>
        LET d == Lower(chkDomain)
        IN  /\ chkResult =
                 \E m \in chkWhitelist :
                    \/ d = m
                    \/ \E k \in 1..Len(d) :
                          /\ d[k] = "."
                          /\ SubSeq(d, k + 1, Len(d)) = m
            /\ chkResult = is_domain_allowed(d, chkWhitelist)

\* C3 witness: a host that ends with the characters of a member without a dot
\* boundary was denied, with an upper-case letter in it.
C3_Witness ==
    /\ chkPhase = "lib"
    /\ chkDomain = <<"A", "a">>
    /\ chkWhitelist = {<<"a">>}
    /\ chkResult = FALSE

C3_WitnessSub ==
    /\ chkPhase = "addon"
    /\ chkDomain = <<"A", ".", "a">>
    /\ chkWhitelist = {<<"a">>}
    /\ chkResult = TRUE

\* C4: when the append of the audit line failed with OSError, request() did
\* not raise, and the outcome is the one of the verdict as after a write that
\* succeeded: the 403 and no upstream for a denied host, the upstream and no
\* 403 for an allowed one.
C4_WriteFailureKeepsDecision ==
    (HookDone /\ logFailed) =>
        /\ ~raised
        /\ resp403 = ~allowedBlock
        /\ upstream.contacted = allowedBlock
        /\ DecidedQuietly => \A W \in inForceBlock : resp403 = ~is_allowed(domain, W)

\* C4 witness: the write failed and the denied host got the 403.
C4_Witness ==
    /\ pc = "done"
    /\ logFailed
    /\ resp403
    /\ ~upstream.contacted
    /\ \A W \in inForceBlock : ~is_allowed(domain, W)

\* C4, the other half: the write failed and the allowed host was forwarded.
C4_WitnessAllowed ==
    /\ pc = "done"
    /\ logFailed
    /\ ~resp403
    /\ upstream.contacted
    /\ \A W \in inForceBlock : is_allowed(domain, W)

\* The number of audit lines written for request r.
LinesFor(r) == Cardinality({i \in 1..Len(auditReq) : auditReq[i] = r})

\* C5: a request whose flow is over, and whose audit write did not fail, has
\* exactly one line in the audit log.
C5_OneRecordUnlessWriteFailed ==
    (pc = "done" /\ ~logFailed) => LinesFor(nReq) = 1

\* C5, the half "never two for the same request".
C5_NeverTwoRecords ==
    \A r \in 1..nReq : LinesFor(r) <= 1

\* C5, the half "existing lines are never rewritten".
C5_AppendOnly ==
    [][/\ Len(auditLog') >= Len(auditLog)
       /\ SubSeq(auditLog', 1, Len(auditLog)) = auditLog]_vars

\* C6: no audit line holds a matched secret in full: not the prefix logged for
\* the finding, and not the url or the host of the line.
C6_NoFullSecretInAudit ==
    \A i \in 1..Len(auditLog) :
        \A j \in 1..Len(auditSecrets[i]) :
            /\ ~Contains(auditLog[i].scrubbed[j].original_prefix, auditSecrets[i][j])
            /\ \A v \in 1..Len(auditLog[i].url) :
                  ~Contains(auditLog[i].url[v], auditSecrets[i][j])
            /\ ~Contains(auditLog[i].host, auditSecrets[i][j])

\* C6 for the secrets longer than the logged prefix.
C6_LongSecretsNotInAudit ==
    \A i \in 1..Len(auditLog) :
        \A j \in 1..Len(auditSecrets[i]) :
            Len(auditSecrets[i][j]) > PrefixLen =>
                /\ Len(auditLog[i].scrubbed[j].original_prefix) = PrefixLen + 1
                /\ ~Contains(auditLog[i].scrubbed[j].original_prefix, auditSecrets[i][j])

\* Two findings overlap as [start, end) intervals.
Overlap(f, g) == f.start < g.end /\ g.start < f.end

PairwiseDisjoint(fs) ==
    \A i, j \in 1..Len(fs) : i # j => ~Overlap(fs[i], fs[j])

\* C7: no two findings of one ScrubResult have overlapping spans, on the
\* normal path and on the chunked path of scrub().
C7_FindingsDisjoint ==
    sPath # "new" => PairwiseDisjoint(sResult.findings)

\* C7, normal path alone (holds): the filter at 180-185 leaves disjoint spans.
C7_NormalPathDisjoint ==
    sPath = "normal" => PairwiseDisjoint(sResult.findings)

\* C8: every finding of scrub() lies within the text and its matched_text is
\* the text of its span.
C8_SpanWithinText ==
    sPath # "new" =>
        \A i \in 1..Len(sResult.findings) :
            LET f == sResult.findings[i]
            IN  /\ 0 <= f.start
                /\ f.start <= f.end
                /\ f.end <= Len(sText)
                /\ f.matched_text = PySlice(sText, f.start, f.end)

\* C8 without the rule whose first group can stay out of a match (holds).
C8_SpanWithinTextFirstGroupMatched ==
    (sPath # "new" /\ \A i \in 1..Len(sRules) : sRules[i] # "alt") =>
        \A i \in 1..Len(sResult.findings) :
            LET f == sResult.findings[i]
            IN  /\ 0 <= f.start
                /\ f.start <= f.end
                /\ f.end <= Len(sText)
                /\ f.matched_text = PySlice(sText, f.start, f.end)

\* The spans the detectors match in sText (what lines 152-171 collect).
Candidates == AllMatches(Patterns(sRules), sText, 0)

\* scrub() reported the candidate with the larger start alone, and its output
\* is the input with that one span replaced and every other character as it was.
RightmostAlone ==
    LET c1   == Candidates[1]
        c2   == Candidates[2]
        kept == sResult.findings[1]
    IN  /\ Len(sResult.findings) = 1
        /\ kept \in {c1, c2}
        /\ kept.start >= c1.start
        /\ kept.start >= c2.start
        /\ sResult.text = PySlice(sText, 0, kept.start) \o kept.placeholder
                            \o PySlice(sText, kept.end, Len(sText))

\* C9: when the text given to scrub() has two candidates and they overlap,
\* scrub() reports exactly one finding, the candidate with the larger start,
\* and leaves the rest of the other candidate's span as it was.
C9_OverlapKeepsRightmost ==
    (sPath # "new" /\ Len(Candidates) = 2 /\ Overlap(Candidates[1], Candidates[2]))
        => RightmostAlone

\* C9 for the texts within MAX_SCRUB_SIZE (holds): lines 176-197.
C9_NormalPathKeepsRightmost ==
    (sPath = "normal" /\ Len(Candidates) = 2 /\ Overlap(Candidates[1], Candidates[2]))
        => RightmostAlone

\* C9 on the normal path, its case: "akk" with the rule k+: the candidates lit (0,2) and run (1,3)
\* overlap, run is reported and the "a" of lit's span is left as it was.
C9_Witness ==
    /\ sPath = "normal"
    /\ sText = <<"a", "k", "k">>
    /\ sRules = <<"run">>
    /\ Len(Candidates) = 2
    /\ Overlap(Candidates[1], Candidates[2])
    /\ Candidates[1].start # Candidates[2].start
    /\ Len(sResult.findings) = 1
    /\ sResult.findings[1].pattern_id = "run"
    /\ sResult.text = <<"a", "[", "run", "]">>

\* C10: a text longer than MAX_SCRUB_SIZE comes back unchanged with no findings.
C10_OversizedSkipped ==
    (sPath = "large" /\ Len(sText) > MAX_SCRUB_SIZE) =>
        /\ sResult.text = sText
        /\ sResult.findings = <<>>

\* A span that starts before a multiple of CHUNK_SIZE and ends after it, within
\* OVERLAP: the window that ends there and the window that starts there both
\* see part of it.
Straddles(c) ==
    \E k \in 1..Len(sText) :
        /\ c.start < k * CHUNK_SIZE
        /\ k * CHUNK_SIZE < c.end
        /\ c.end <= k * CHUNK_SIZE + OVERLAP

\* C11: on the chunked path, a text whose one secret straddles a window
\* boundary comes back with exactly one finding, that secret, and with exactly
\* one placeholder in its place.
C11_StraddlingSecretOnce ==
    (sPath = "large" /\ Len(Candidates) = 1 /\ Straddles(Candidates[1])) =>
        /\ sResult.findings = Candidates
        /\ sResult.text = PySlice(sText, 0, Candidates[1].start)
                            \o Candidates[1].placeholder
                            \o PySlice(sText, Candidates[1].end, Len(sText))

\* C11, the case where the part of the secret that the next window sees is no
\* match by itself (the built-in ak across the boundary): found once.
C11_Witness ==
    /\ sPath = "large"
    /\ Len(Candidates) = 1
    /\ Straddles(Candidates[1])
    /\ sResult.findings = Candidates

\* C12: scrub() of a text that scrub() returned gives that text back.
C12_ScrubIdempotentOnRedacted ==
    sAgain # <<>> => sAgain[1].text = sResult.text

\* Every loaded rule has its first group in each of its matches.
FirstGroupMatches == \A i \in 1..Len(sRules) : sRules[i] # "alt"

\* C12 for the texts within MAX_SCRUB_SIZE and the rules whose first group
\* takes part in every match.
C12_IdempotentOnNormalPath ==
    (sAgain # <<>> /\ sPath \in {"empty", "normal"} /\ FirstGroupMatches)
        => sAgain[1].text = sResult.text

\* C12 for the texts within MAX_SCRUB_SIZE and rules that match neither a
\* placeholder nor, with their group, the text after a keyword (holds).
C12_IdempotentWithoutValueRule ==
    (/\ sAgain # <<>>
     /\ sPath \in {"empty", "normal"}
     /\ \A i \in 1..Len(sRules) : sRules[i] \notin {"alt", "val"})
        => sAgain[1].text = sResult.text

\* C13: in the engine the manager started, the live set is what the handler
\* last read from the allow-list file, a request decided after the handler ran
\* gets the verdict of that content, and the manager still holds the same
\* running process on the same port.
C13_ReloadTakesEffect ==
    addon = "container" =>
        /\ whitelist = load_whitelist(wlFile)
        /\ (pc \in {"block", "sent", "done"} /\ DecidedQuietly
                /\ inForceBlock = {whitelist}) =>
               allowedBlock = is_domain_allowed(domain, load_whitelist(wlFile))
        /\ pid = 1 /\ port = 1 /\ procs[1].alive /\ procs[1].up

\* C13's case: a host was denied, reload() was called and the handler ran, and
\* the next request to the same host is let through.
C13_Witness ==
    /\ addon = "container"
    /\ nReq = 2 /\ pc = "done" /\ DecidedQuietly
    /\ inForceBlock = {whitelist}
    /\ ~procs[pid].hup
    /\ Len(auditLog) = 2
    /\ auditLog[1].host = auditLog[2].host
    /\ ~auditLog[1].allowed /\ auditLog[2].allowed
    /\ ~resp403 /\ upstream.contacted

\* C13's other case: a host was allowed and is denied after the reload.
C13_WitnessRemoved ==
    /\ addon = "container"
    /\ nReq = 2 /\ pc = "done" /\ DecidedQuietly
    /\ inForceBlock = {whitelist}
    /\ Len(auditLog) = 2
    /\ auditLog[1].host = auditLog[2].host
    /\ auditLog[1].allowed /\ ~auditLog[2].allowed
    /\ resp403 /\ ~upstream.contacted

\* C14: the verdict an is_allowed call returned for the block test is the
\* verdict of one of the allow-sets that were live while the call ran.
C14_VerdictOfOldOrNewSet ==
    (pc \in {"block", "sent", "done"} /\ ~raised) =>
        \E W \in inForceBlock : allowedBlock = is_allowed(domain, W)

\* C14's second half: the live set is always the whole content of some file,
\* never a part of it (holds).
C14_LiveSetNeverPartial ==
    whitelist \in {load_whitelist(f) : f \in Files}

C16_ResponsePassedThrough ==
    /\ (pc = "done" /\ upstream.contacted) => delivered = upstream.body
    /\ \A i \in 1..Len(auditLog) : auditLog[i].type # "response_scrub"

\* C16 for the container addon, which has no response hook (holds).
C16_ContainerPassesThrough ==
    addon = "container" =>
        /\ (pc = "done" /\ upstream.contacted) => delivered = upstream.body
        /\ \A i \in 1..Len(auditLog) : auditLog[i].type # "response_scrub"

\* A step of stop(), from its call.
StopCalled == stops' = stops + 1

\* C17: a stop() on a manager that holds no process, never started or already
\* stopped, changes nothing and signals nothing, and once stop() has returned
\* the manager holds no process, no log file and no port.
C17_StopIdempotent ==
    /\ []((stops > 0 /\ mpc = "idle") =>
             (_process = 0 /\ _log_file = 0 /\ port = 0))
    /\ [][(StopCalled /\ _process = 0) =>
             UNCHANGED <<_process, _log_file, port, mpc, procs, openFiles,
                         startResult>>]_vars

\* C17's case: start(), stop() and stop() again.
C17_Witness ==
    /\ stops = 2
    /\ mpc = "idle"
    /\ startResult = "ok"
    /\ Len(procs) = 1
    /\ procs[1].sigs = <<"SIGTERM">>

\* C17's other case: stop() on a manager that was never started.
C17_WitnessNeverStarted == stops > 0 /\ procs = <<>> /\ startResult = "none"

\* A step in which a SIGHUP was sent to process p.
HupSentTo(p) == Len(procs') = Len(procs) /\ ~procs[p].hup /\ procs'[p].hup

\* C18: reload() sends SIGHUP only to the running engine of a manager whose
\* start() returned, and never after a failed start().
C18_ReloadOnlyToRunningEngine ==
    [][\A p \in 1..Len(procs) :
          HupSentTo(p) => (p = _process /\ procs[p].alive /\ startResult = "ok")]_vars

\* C18 without the failed start: no SIGHUP without a process handle or to a
\* process that has ended (holds).
C18_NoSignalWithoutLiveProcess ==
    [][\A p \in 1..Len(procs) :
          HupSentTo(p) => (p = _process /\ procs[p].alive)]_vars

\* C19: when start() raises after the wait, the process it spawned has ended
\* and the manager holds no process, no open log file and no port.
C19_FailedStartCleanedUp ==
    [][(mpc = "startWait" /\ startResult' = "RuntimeError") =>
          /\ ~procs'[_process].alive
          /\ _process' = 0
          /\ _log_file' = 0
          /\ openFiles' = {}
          /\ port' = 0]_vars

\* C19's first half: without a connection to the port start() raises, and it
\* has sent SIGTERM to a process that still runs (holds).
C19_FailedStartRaisesAndTerminates ==
    [][(mpc = "startWait" /\ mpc' = "idle" /\ ~procs[_process].up) =>
          /\ startResult' = "RuntimeError"
          /\ (procs[_process].alive =>
                 procs'[_process].sigs = Append(procs[_process].sigs, "SIGTERM"))]_vars

\* C20: when stop() returns, the process the manager held has ended and its
\* log file is closed; SIGKILL is sent only to a process that still ran after
\* the wait, and only after SIGTERM.
C20_StopEndsEngine ==
    [][(mpc = "stopWait" /\ mpc' = "idle") =>
          /\ ~procs'[_process].alive
          /\ _log_file' = 0
          /\ _log_file \notin openFiles'
          /\ procs'[_process].sigs # procs[_process].sigs =>
                 /\ procs[_process].alive
                 /\ procs'[_process].sigs = Append(procs[_process].sigs, "SIGKILL")
                 /\ \E i \in 1..Len(procs[_process].sigs) :
                        procs[_process].sigs[i] = "SIGTERM"]_vars

\* C20's case: the process did not end on SIGTERM within the wait and was killed.
C20_Witness ==
    /\ mpc = "idle"
    /\ stops = 1
    /\ startResult = "ok"
    /\ _process = 0 /\ _log_file = 0 /\ openFiles = {}
    /\ Len(procs) = 1
    /\ procs[1].sigs = <<"SIGTERM", "SIGKILL">>
    /\ ~procs[1].alive

\* C20's other case: the process ended on SIGTERM and no SIGKILL was sent.
C20_WitnessGraceful ==
    /\ mpc = "idle"
    /\ stops = 1
    /\ startResult = "ok"
    /\ _process = 0
    /\ procs[1].sigs = <<"SIGTERM">>

\* C21: a missing allow-list file gives the empty set, at start and on
\* reload, and a request handled under the empty set has the 403 and does
\* not reach the upstream.
C21_MissingFileDeniesAll ==
    /\ wlFile = MissingFile => whitelist = {}
    /\ (HookDone /\ inForceBlock = {{}}) => (resp403 /\ ~upstream.contacted)

\* C21 for the requests request() returned from (holds).
C21_MissingFileDeniesDecided ==
    /\ wlFile = MissingFile => whitelist = {}
    /\ (HookDone /\ ~raised /\ inForceBlock = {{}}) =>
           (resp403 /\ ~upstream.contacted)

\* C21's case: the file went missing, the handler ran, and the next request
\* was answered 403.
C21_Witness ==
    /\ HookDone /\ ~raised
    /\ wlFile = MissingFile
    /\ inForceBlock = {{}}
    /\ nReq = 2
    /\ Len(auditLog) > 0 /\ auditLog[1].allowed
    /\ resp403

\* C22: between the manager's calls, every process it spawned that still runs
\* is the one whose handle it holds, and every log file it opened that is
\* still open is the one it holds; after a stop() none runs and none is open.
C22_SingleOwner ==
    mpc = "idle" =>
        /\ \A p \in 1..Len(procs) : procs[p].alive => p = _process
        /\ openFiles \subseteq {_log_file}
        /\ stops > 0 => (openFiles = {} /\ \A p \in 1..Len(procs) : ~procs[p].alive)

\* C22 for a manager whose start() is called once (holds).
C22_SingleOwnerOneStart ==
    (mpc = "idle" /\ Len(procs) <= 1) =>
        /\ \A p \in 1..Len(procs) : procs[p].alive => p = _process
        /\ openFiles \subseteq {_log_file}
        /\ stops > 0 => (openFiles = {} /\ \A p \in 1..Len(procs) : ~procs[p].alive)

\* C23: the audit record of a request is appended when its forward-or-block
\* outcome has been applied, and the append is the last stage of the request.
C23_LoggedAfterOutcome ==
    [][(pc = "log" /\ pc' # "log") =>
          /\ resp403 \/ upstream.contacted
          /\ pc' \in {"sent", "done"}]_vars

\* The order request() has: received and scrubbed, verdict for the record,
\* record appended, verdict for the block test, 403 or forward, response; no
\* step back and no second pass (holds).
C23_OrderOfRequest ==
    [][pc' # pc =>
          <<pc, pc'>> \in {<<"idle", "allowLog">>, <<"done", "allowLog">>,
                           <<"allowLog", "log">>, <<"log", "allowBlock">>,
                           <<"log", "sent">>, <<"allowBlock", "block">>,
                           <<"block", "sent">>, <<"sent", "done">>}]_vars

\* The request in hand has a body of a text-like type that decodes as UTF-8.
BodyInspected ==
    /\ reqIn.content # <<>>
    /\ reqIn.content_type # <<>>
    /\ Head(reqIn.content_type) \in {"text/", "application/json",
                                     "application/x-www-form-urlencoded",
                                     "application/xml", "application/javascript"}
    /\ reqIn.utf8

\* The findings made in the query string of the request in hand.
UrlFindings ==
    IF addon = "container" THEN _scrub_url(reqIn.url, engRules).findings ELSE <<>>

\* C24: a body that is absent, of no or of a non-text content type, or not
\* UTF-8, and a body the scrubber finds nothing in, stays as it came,
\* contributes no finding and is forwarded as it came.
C24_BodyInspectedOnlyWhenText ==
    pc # "idle" =>
        /\ (~BodyInspected \/ scrub(reqIn.content, Patterns(engRules)).findings = <<>>) =>
               /\ flow.content = reqIn.content
               /\ scrubbed_findings = UrlFindings
        /\ (pc = "sent" /\ upstream.contacted) => upstream.body = flow.content

\* C24's case: a text body with a secret in it that is not UTF-8 was
\* forwarded as it came.
C24_Witness ==
    /\ pc = "sent" /\ upstream.contacted
    /\ ~reqIn.utf8
    /\ reqIn.content = <<"k", "k">>
    /\ upstream.body = <<"k", "k">>
    /\ scrubbed_findings = <<>>

\* C24's other case: a body of a non-text type with a secret in it stayed.
C24_WitnessNonText ==
    /\ pc = "sent"
    /\ reqIn.content_type = <<"image/", "png">>
    /\ flow.content = <<"k", "k">>
    /\ scrubbed_findings = <<>>

\* The text a value of the query string has after scrubbing.
Redacted(value) == scrub(value, Patterns(engRules)).text

\* Nothing was found in the query string and in the body of the request in hand.
NothingFound == scrubbed_findings = <<>>

\* C25: the request request() leaves behind differs from the one received in
\* redacted spans of query values and of the body only: the method and the
\* Authorization header are the same, every query value is there, as it came
\* or redacted, and without a finding the URL and the body are the same.
C25_OnlyRedactedSpansChange ==
    pc # "idle" =>
        /\ flow.method = reqIn.method
        /\ flow.authorization = reqIn.authorization
        /\ flow.host_header = reqIn.host_header
        /\ flow.content_type = reqIn.content_type
        /\ Len(flow.url) = Len(reqIn.url)
        /\ \A i \in 1..Len(reqIn.url) :
              i <= Len(flow.url) =>
                 flow.url[i] \in {reqIn.url[i], Redacted(reqIn.url[i]),
                                  Quote(Redacted(reqIn.url[i]))}
        /\ NothingFound => (flow.url = reqIn.url /\ flow.content = reqIn.content)

\* C25 without the query values besides the redacted ones: method and headers
\* stay, and without a finding the URL and the body stay (holds).
C25_HeadersAndCleanRequestKept ==
    pc # "idle" =>
        /\ flow.method = reqIn.method
        /\ flow.authorization = reqIn.authorization
        /\ flow.host_header = reqIn.host_header
        /\ flow.content_type = reqIn.content_type
        /\ NothingFound => (flow.url = reqIn.url /\ flow.content = reqIn.content)

\* The rules of the file that have a regex that compiles and a string id.
RECURSIVE ValidIds(_)
ValidIds(rules) ==
    IF rules = <<>> THEN <<>>
    ELSE IF Head(rules).regex = "ok" /\ Head(rules).id # "int"
         THEN <<rule_id(Head(rules))>> \o ValidIds(Tail(rules))
    ELSE ValidIds(Tail(rules))

\* C26: for every rule file the construction raises nothing, loads the
\* built-in PII patterns and exactly the valid rules of the file, and warns
\* when the file is unusable or a rule was skipped.
C26_LoadingNeverFails ==
    rPhase = "built" =>
        /\ ~rLoaded.raised
        /\ rLoaded.pii_patterns
        /\ rLoaded.secret_patterns = (IF rCfg.given /\ rCfg.exists /\ rCfg.parses
                                      THEN ValidIds(rCfg.rules) ELSE <<>>)
        /\ (rCfg.given /\ Len(rLoaded.secret_patterns) < Len(rCfg.rules)) =>
               rLoaded.warnings > 0

\* C26 for rule files whose fields, where present, are strings (holds).
C26_LoadingWithStringFields ==
    (rPhase = "built"
       /\ \A i \in 1..Len(rCfg.rules) :
             rCfg.rules[i].id # "int" /\ rCfg.rules[i].regex # "int") =>
        /\ ~rLoaded.raised
        /\ rLoaded.pii_patterns
        /\ rLoaded.secret_patterns = (IF rCfg.given /\ rCfg.exists /\ rCfg.parses
                                      THEN ValidIds(rCfg.rules) ELSE <<>>)
        /\ (rCfg.given /\ Len(rLoaded.secret_patterns) < Len(rCfg.rules)) =>
               rLoaded.warnings > 0

\* The audit records log_request wrote for the request in hand.
LinesOfRequest ==
    {i \in 1..Len(auditReq) : auditReq[i] = nReq /\ auditLog[i].type = "request"}

\* C27: once request() is done with a flow, the `allowed` of its audit line is
\* the decision enforced on it: false exactly when the 403 was set, whatever
\* reloads were delivered while the request was handled.
C27_LoggedDecisionIsEnforced ==
    HookDone => \A i \in LinesOfRequest : auditLog[i].allowed = ~resp403

\* C27 for the requests request() returned from whose recorded verdict is the
\* one of the allow-set the block test ran under, no reload having changed
\* the set since (holds).
C27_LoggedDecisionWithoutReload ==
    (HookDone /\ DecidedQuietly /\ \A i \in LinesOfRequest :
                    \A W \in inForceBlock :
                        auditLog[i].allowed = is_allowed(domain, W)) =>
        \A i \in LinesOfRequest : auditLog[i].allowed = ~resp403

\* start() raised after self._proxy.start() had returned the port.
FailedAfterProxy == vmPc \in {"failed", "exited"} /\ vmError # "ProxyStart"

\* C28: when start() fails after the proxy was started, the proxy process is
\* stopped when the error reaches the caller, and stays so.
C28_FailedStartStopsProxy ==
    FailedAfterProxy => vmProxy = "ended"

\* C28 for the failures of the container launch, the two that start() catches
\* (holds).
C28_LaunchFailureStopsProxy ==
    (FailedAfterProxy /\ vmError \in {"CommandMissing", "LaunchFailed"}) =>
        vmProxy = "ended"

\* C28 witness: the launch failed and the caller has the error.
C28_Witness ==
    /\ vmPc = "exited"
    /\ vmError = "LaunchFailed"
    /\ vmProxy = "ended"

LastCall == sCalls[Len(sCalls)]

\* C29: a session is created running with ended_at and bundle_path unset;
\* after any calls of mark_complete, mark_abandoned and finalize it is not
\* running, ended_at is set exactly when it is not running, bundle_path is set
\* when it is complete, finalize ends in complete exactly when the bundle was
\* created, and state.json read back is the state in memory.
C29_OneWayLifecycle ==
    sState # NoState =>
        /\ sState.status \in {"running", "complete", "abandoned"}
        /\ (sCalls = <<>>) =>
               /\ sState.status = "running"
               /\ sState.ended_at = None
               /\ sState.bundle_path = None
        /\ (sCalls # <<>>) => sState.status # "running"
        /\ (sState.ended_at # None) = (sState.status # "running")
        /\ (sState.status = "complete") => sState.bundle_path # None
        /\ (sCalls # <<>> /\ LastCall[1] = "finalize") =>
               /\ (sState.status = "complete") = (LastCall[2] = "ok")
               /\ (sState.status = "abandoned") = (LastCall[2] # "ok")
        /\ load = sState

\* C29 witness: a finalize that failed after a completed one; the session is
\* abandoned and state.json says so.
C29_Witness ==
    /\ Len(sCalls) = 2
    /\ sCalls[1] = <<"finalize", "ok">>
    /\ sCalls[2] = <<"finalize", "verifyfailed">>
    /\ sState.status = "abandoned"
    /\ json_loads(sDisk).status = "abandoned"

\* C30: whatever the runtime option, the host and the sessions, the directory
\* of a session whose container runs is never deleted.
C30_RunningNeverDeleted ==
    \A i \in SessionIds : pSessions[i].running => pSessions[i].dir

\* C30 where the query can see the container: docker sessions whose
\* session.log names the workspace, on a host where docker is installed and
\* answers, under commands run with --runtime auto or docker (holds).
C30_DockerSessionKept ==
    ("docker" \in pHost.commands /\ pHost.answers
       /\ \A run \in pRuns : run[2] # "apple") =>
        \A i \in SessionIds :
            (pSessions[i].running /\ pSessions[i].runtime = "docker"
               /\ pSessions[i].workspace) => pSessions[i].dir

\* C30 witness: a command deleted a directory and kept the one of a running
\* docker session.
C30_Witness ==
    /\ pRuns = {<<"housekeeping", "auto">>}
    /\ "docker" \in pHost.commands /\ pHost.answers
    /\ ~pSessions[1].dir
    /\ pSessions[2].dir /\ pSessions[2].running /\ pSessions[2].workspace
    /\ pSessions[2].runtime = "docker"
====
